---------------------------- MODULE Spec2Model ----------------------------
(***************************************************************************)
(* Model of the RouterOS API client of ISPVisualMonitor-Agent:             *)
(*   internal/collector/mikrotik/api/client.go  (circuitBreaker, Client)   *)
(*   internal/collector/mikrotik  Collector.CollectAll / createClient      *)
(*                                                                         *)
(* Time is counted in seconds.  A state is the state of one Client, its    *)
(* circuit breaker, the goroutines that call it and the clock.             *)
(***************************************************************************)
EXTENDS Integers, Sequences, FiniteSets, TLC

\* newCircuitBreaker(5, 30*time.Second) in NewClient
MaxFailures == 5
ResetTimeout == 30

\* ---- bounds of the model ------------------------------------------------
\* the clock stops advancing here
MaxNow == 62
\* recordFailure is not called any more once the failure counter is here
FailCap == 6

\* amounts by which the clock advances: up to the reset timeout, and past it
TickSteps == {ResetTimeout, ResetTimeout + 1}

\* the zero time.Time of a fresh breaker lies far in the past
ZeroTime == 0 - (ResetTimeout + 1)

VARIABLES
  now,               \* wall clock (time.Now)
  cbState,           \* circuitBreaker.state
  failures,          \* circuitBreaker.failures
  lastFailure,       \* circuitBreaker.lastFailure
  halfOpenAttempts,  \* circuitBreaker.halfOpenAttempts
  \* history of the breaker calls (observation only)
  cbCall,            \* the breaker method the last step called, or "none"
  cbPrev,            \* breaker state before that call
  cbRet,             \* what canAttempt returned in that call
  streak,            \* recordFailure calls since construction/recordSuccess/reset
  failAt,            \* time of the most recent recordFailure call
  reopened,          \* the most recent recordFailure call found the breaker HalfOpen
  \* the Client
  retryAttempts,     \* ClientConfig.RetryAttempts
  connected,         \* Client.connected
  conn,              \* Client.conn
  reader,            \* Client.reader
  mu,                \* Client.mu: the goroutine holding it, or NoProc
  openConns,         \* sockets dialed and not yet closed
  panicked,          \* a goroutine dereferenced a nil conn/reader: the process is gone
  frame,             \* per goroutine: position in Connect/Execute/Run and its locals
  ev,                \* the call that returned in the last step (observation only)
  \* the Collector
  cycle,             \* position of the running CollectAll, "idle" between cycles
  cycleFails,        \* consecutive CollectAll calls whose Connect failed (observation only)
  cycleFailAt,       \* when the last of them failed (observation only)
  \* the functions of the codec and of the collectors, called on their own
  call,              \* the function called and its arguments, or NoCallMade
  returned,          \* what the call returned, or NoResult while it has not
  \* the interfaceTracker of the Collector
  states,            \* interfaceTracker.states: name -> last observation
  \* collectNAT
  nat,               \* the configuration and the locals of its loop over the rows
  \* CollectAll after Connect
  collectAll,        \* cfg.Collect, the category it stands at, and its CollectedData
  \* the device at the other end of Client.conn
  wire,              \* commands written, replies not yet read, and whose the read ones were
  \* the routers polled through one Collector
  owner              \* per interface name: the router whose observation states holds

cbVars == <<cbState, failures, lastFailure, halfOpenAttempts>>
cbHist == <<cbCall, cbPrev, cbRet, streak, failAt, reopened>>
clVars == <<connected, conn, reader, openConns>>
coVars == <<cycle, cycleFails, cycleFailAt>>
fnVars == <<call, returned, states, nat, collectAll, wire, owner>>
vars == <<now, cbVars, cbHist, retryAttempts, clVars, mu, panicked, frame, ev, coVars,
          fnVars>>

\* ---- circuitBreaker ------------------------------------------------------

\* canAttempt returning r
canAttempt(r) ==
  \/ /\ cbState = "Closed"
     /\ r = TRUE
     /\ UNCHANGED cbVars
  \/ /\ cbState = "Open"
     /\ now - lastFailure > ResetTimeout
     /\ cbState' = "HalfOpen"
     /\ halfOpenAttempts' = 0
     /\ r = TRUE
     /\ UNCHANGED <<failures, lastFailure>>
  \/ /\ cbState = "Open"
     /\ ~(now - lastFailure > ResetTimeout)
     /\ r = FALSE
     /\ UNCHANGED cbVars
  \/ /\ cbState = "HalfOpen"
     /\ r = (halfOpenAttempts < 1)
     /\ UNCHANGED cbVars

\* recordSuccess that closes the breaker and forgets to clear the counter
recordSuccess_keepCount ==
  /\ cbState' = "Closed"
  /\ UNCHANGED <<failures, lastFailure, halfOpenAttempts>>

\* recordSuccess
recordSuccess ==
  /\ failures' = 0
  /\ cbState' = "Closed"
  /\ UNCHANGED <<lastFailure, halfOpenAttempts>>

\* recordFailure that opens one failure late (> for >=)
recordFailure_offByOne ==
  /\ failures' = failures + 1
  /\ lastFailure' = now
  /\ cbState' = IF cbState = "HalfOpen" THEN "Open"
                ELSE IF failures' > MaxFailures THEN "Open"
                ELSE cbState
  /\ UNCHANGED halfOpenAttempts

\* recordFailure that returns from the HalfOpen branch before stamping lastFailure
recordFailure_noStamp ==
  /\ failures' = failures + 1
  /\ lastFailure' = IF cbState = "HalfOpen" THEN lastFailure ELSE now
  /\ cbState' = IF cbState = "HalfOpen" THEN "Open"
                ELSE IF failures' >= MaxFailures THEN "Open"
                ELSE cbState
  /\ UNCHANGED halfOpenAttempts

\* recordFailure
recordFailure ==
  /\ failures' = failures + 1
  /\ lastFailure' = now
  /\ cbState' = IF cbState = "HalfOpen" THEN "Open"
                ELSE IF failures' >= MaxFailures THEN "Open"
                ELSE cbState
  /\ UNCHANGED halfOpenAttempts

\* reset that clears the counter and leaves the state alone
reset_countOnly ==
  /\ failures' = 0
  /\ UNCHANGED <<cbState, lastFailure, halfOpenAttempts>>

\* reset
reset ==
  /\ failures' = 0
  /\ cbState' = "Closed"
  /\ UNCHANGED <<lastFailure, halfOpenAttempts>>

\* ---- observation of the breaker calls -------------------------------------

NoCall ==
  /\ cbCall' = "none"
  /\ cbPrev' = "none"
  /\ cbRet' = FALSE
  /\ UNCHANGED <<streak, failAt, reopened>>

SawCanAttempt(r) ==
  /\ cbCall' = "canAttempt"
  /\ cbPrev' = cbState
  /\ cbRet' = r
  /\ UNCHANGED <<streak, failAt, reopened>>

SawRecordSuccess ==
  /\ cbCall' = "recordSuccess"
  /\ cbPrev' = cbState
  /\ cbRet' = FALSE
  /\ streak' = 0
  /\ reopened' = FALSE
  /\ UNCHANGED failAt

SawReset ==
  /\ cbCall' = "reset"
  /\ cbPrev' = cbState
  /\ cbRet' = FALSE
  /\ streak' = 0
  /\ reopened' = FALSE
  /\ UNCHANGED failAt

SawRecordFailure ==
  /\ cbCall' = "recordFailure"
  /\ cbPrev' = cbState
  /\ cbRet' = FALSE
  /\ streak' = streak + 1
  /\ failAt' = now
  /\ reopened' = (cbState = "HalfOpen")

\* ---- the Client ------------------------------------------------------------

Procs == {"g1", "g2"}
NoProc == "none"
Nil == "nil"

\* replies a command collects before the terminal one
MaxReplies == 1
\* largest configured RetryAttempts
MaxRetry == 1
\* ClientConfig.RetryAttempts is an int the caller sets freely
RetryChoices == (0 - 1) .. MaxRetry

ReplyTypes == {"re", "done", "trap", "fatal"}
\* the reply carries no ret attribute, a hex string, or something else
RetKinds == {"none", "hex", "bad"}

IdleFrame ==
  [pc |-> "idle", op |-> "none", attempt |-> 0, lastErr |-> "nil",
   authErr |-> "nil", chalFrom |-> "none", replies |-> <<>>,
   tries |-> 0, recs |-> <<>>, tryErr |-> "none", io |-> "none"]

NoEv ==
  [p |-> NoProc, op |-> "none", ret |-> "none", admitted |-> FALSE,
   tries |-> 0, recs |-> <<>>, last |-> "none", rows |-> <<>>,
   io |-> "none", at |-> "none", retAttr |-> "none", out |-> <<>>]

\* the event "op of goroutine p returned r"
RetEv(p, op, r, f) ==
  [p |-> p, op |-> op, ret |-> r, admitted |-> (op = "Connect" /\ f.pc # "idle"),
   tries |-> f.tries, recs |-> f.recs, last |-> f.tryErr, rows |-> f.replies,
   io |-> f.io, at |-> "none", retAttr |-> "none", out |-> <<>>]

\* the event "readReply, called by goroutine p at the place `at` of the login,
\* returned a reply of type t"; retAttr is the ret attribute tryNewLogin finds
\* in it when it looks for a challenge (line 255)
LoginReplyEv(p, at, t, k) ==
  [NoEv EXCEPT !.p = p, !.op = "readReply", !.ret = t, !.at = at,
               !.retAttr = IF at = "new" /\ t \notin {"done", "trap"}
                           THEN k ELSE "none"]

\* ---- replies and read errors ------------------------------------------------

\* the attribute map of a reply whose attributes play no part
NoData == "none"
\* a Reply: its type word and its attribute map
Reply(t, d) == [type |-> t, data |-> d]

\* what makes a read or a write on the socket fail
ReadFailures == {"EOF", "deadline", "reset"}
WriteFailures == {"deadline", "reset"}

\* the error value io.EOF
ioEOF == [msg |-> "EOF", wraps |-> "nothing"]
\* DecodeSentence: a failed read of a word comes back as
\* fmt.Errorf("failed to read ...: %w", err)
DecodeSentenceErr(c) == [msg |-> "failed to read", wraps |-> c]
\* readReply, lines 434-440: the error it makes of DecodeSentence's error;
\* `err == io.EOF` compares the error itself, not the error it wraps
readReplyErr(err) ==
  IF err = ioEOF THEN "ErrConnectionClosed" ELSE "ProtocolError"

\* a Lock that does not wait
Lock_noWait(p) == TRUE

\* c.mu.Lock() returns once nobody holds the mutex
Lock(p) == mu = NoProc

\* c.conn holds a socket that has been closed
Closed == "closed"

\* closeConn, lines 340-349; Close on a socket that is closed already changes
\* nothing
closeConn ==
  /\ connected' = FALSE
  /\ IF conn # Nil
     THEN /\ conn' = Nil
          /\ reader' = Nil
          /\ openConns' = IF conn = Closed THEN openConns ELSE openConns - 1
     ELSE UNCHANGED <<conn, reader, openConns>>

\* a running step of goroutine p that returns nothing and calls no breaker method
Goes(p, f) ==
  /\ frame' = [frame EXCEPT ![p] = f]
  /\ ev' = NoEv

\* goroutine p returns r from its call and releases c.mu (deferred Unlock)
Returns(p, r, f) ==
  /\ ev' = RetEv(p, frame[p].op, r, f)
  /\ frame' = [frame EXCEPT ![p] = IdleFrame]
  /\ mu' = NoProc

\* nil pointer dereference: the goroutine panics, nothing recovers it
Panics(p) ==
  /\ panicked' = TRUE
  /\ frame' = [frame EXCEPT ![p].pc = "panic"]
  /\ ev' = NoEv
  /\ mu' = NoProc

\* Connect that asks canAttempt and goes on whatever the answer
ConnectEnter_ignoreBreaker(p) ==
  /\ frame[p].pc = "idle"
  /\ Lock(p)
  /\ failures < FailCap
  /\ UNCHANGED <<now, retryAttempts, clVars, panicked>>
  /\ IF connected
     THEN /\ ev' = RetEv(p, "Connect", "nil", IdleFrame)
          /\ UNCHANGED <<frame, mu, cbVars>>
          /\ NoCall
     ELSE \E r \in BOOLEAN :
            /\ canAttempt(r)
            /\ SawCanAttempt(r)
            /\ Goes(p, [IdleFrame EXCEPT !.pc = "loop", !.op = "Connect"])
            /\ mu' = p

\* Connect, lines 145-154: lock, already connected?, circuit breaker gate
ConnectEnter(p) ==
  /\ frame[p].pc = "idle"
  /\ Lock(p)
  /\ failures < FailCap
  /\ UNCHANGED <<now, retryAttempts, clVars, panicked>>
  /\ IF connected
     THEN /\ ev' = RetEv(p, "Connect", "nil", IdleFrame)
          /\ UNCHANGED <<frame, mu, cbVars>>
          /\ NoCall
     ELSE \E r \in BOOLEAN :
            /\ canAttempt(r)
            /\ SawCanAttempt(r)
            /\ IF r
               THEN /\ Goes(p, [IdleFrame EXCEPT !.pc = "loop", !.op = "Connect"])
                    /\ mu' = p
               ELSE /\ ev' = RetEv(p, "Connect", "ErrCircuitOpen", IdleFrame)
                    /\ UNCHANGED <<frame, mu>>

\* the loop of Connect running one iteration too many
ConnectLoop_oneMore(p) ==
  /\ frame[p].pc = "loop"
  /\ UNCHANGED <<now, retryAttempts, clVars, panicked>>
  /\ IF frame[p].attempt <= retryAttempts + 1
     THEN /\ Goes(p, [frame[p] EXCEPT !.pc = IF frame[p].attempt > 0 THEN "wait" ELSE "dial"])
          /\ UNCHANGED <<mu, cbVars>>
          /\ NoCall
     ELSE /\ recordFailure
          /\ SawRecordFailure
          /\ Returns(p, frame[p].lastErr, [frame[p] EXCEPT !.recs = Append(@, "F")])

\* Connect, line 157 and lines 187-188: the loop condition, and the exit of the loop
ConnectLoop(p) ==
  /\ frame[p].pc = "loop"
  /\ UNCHANGED <<now, retryAttempts, clVars, panicked>>
  /\ IF frame[p].attempt <= retryAttempts
     THEN /\ Goes(p, [frame[p] EXCEPT !.pc = IF frame[p].attempt > 0 THEN "wait" ELSE "dial"])
          /\ UNCHANGED <<mu, cbVars>>
          /\ NoCall
     ELSE /\ recordFailure
          /\ SawRecordFailure
          /\ Returns(p, frame[p].lastErr, [frame[p] EXCEPT !.recs = Append(@, "F")])

\* Connect that looks at ctx.Done() at the top of every iteration, the first included
ConnectCancelled_everyIteration(p) ==
  /\ frame[p].pc \in {"wait", "dial"}
  /\ Returns(p, "ctxErr", frame[p])
  /\ NoCall
  /\ UNCHANGED <<now, retryAttempts, clVars, panicked, cbVars>>

\* Connect, lines 159-163: the context is done while Connect waits
ConnectCancelled(p) ==
  /\ frame[p].pc = "wait"
  /\ Returns(p, "ctxErr", frame[p])
  /\ NoCall
  /\ UNCHANGED <<now, retryAttempts, clVars, panicked, cbVars>>

\* Connect, lines 159-163: RetryDelay has passed
ConnectRetry(p) ==
  /\ frame[p].pc = "wait"
  /\ Goes(p, [frame[p] EXCEPT !.pc = "dial"])
  /\ NoCall
  /\ UNCHANGED <<now, retryAttempts, clVars, panicked, cbVars, mu>>

\* `continue` in the loop of Connect: err becomes lastErr, attempt++
Continue(f, err) ==
  [f EXCEPT !.pc = "loop", !.attempt = @ + 1, !.lastErr = err, !.tryErr = err,
            !.authErr = "nil", !.chalFrom = "none"]

\* Client.connect, called at line 166
ConnectDial(p) ==
  /\ frame[p].pc = "dial"
  /\ NoCall
  /\ UNCHANGED <<now, retryAttempts, panicked, cbVars, mu, connected>>
  /\ LET f == [frame[p] EXCEPT !.tries = @ + 1, !.tryErr = "pending"] IN
     \/ /\ conn' = "conn"
        /\ reader' = "reader"
        /\ openConns' = openConns + 1
        /\ Goes(p, [f EXCEPT !.pc = "newW"])
     \/ /\ UNCHANGED <<conn, reader, openConns>>
        /\ Goes(p, Continue(f, "ConnectionError"))

\* tryNewLogin failed with any error: authenticate goes on to tryLegacyLogin
\* handleLegacyChallenge called from tryNewLogin fails the same way
AuthFails(f, err) ==
  IF f.pc \in {"newW", "newR"} \/ f.chalFrom = "new"
  THEN [f EXCEPT !.pc = "legW", !.chalFrom = "none"]
  ELSE [f EXCEPT !.pc = "authRet", !.authErr = err, !.chalFrom = "none"]

\* writeSentence of a /login sentence (tryNewLogin, tryLegacyLogin, handleLegacyChallenge)
AuthWrite(p) ==
  /\ frame[p].pc \in {"newW", "legW", "chalW"}
  /\ NoCall
  /\ UNCHANGED <<now, retryAttempts, cbVars, clVars>>
  /\ IF conn = Nil
     THEN Panics(p)
     ELSE /\ UNCHANGED <<mu, panicked>>
          /\ \/ Goes(p, [frame[p] EXCEPT !.pc = CASE @ = "newW" -> "newR"
                                                   [] @ = "legW" -> "legR"
                                                   [] OTHER -> "chalR"])
             \/ Goes(p, AuthFails(frame[p], "ConnectionError"))

\* what the caller of readReply does with a reply of type t and ret attribute k
AuthOnReply(f, t, k) ==
  CASE f.pc = "newR" ->
         IF t = "trap" THEN AuthFails(f, "AuthError")
         ELSE IF t # "done"
              THEN IF k = "hex" THEN [f EXCEPT !.pc = "chalW", !.chalFrom = "new"]
                   ELSE AuthFails(f, "ProtocolError")
              ELSE [f EXCEPT !.pc = "authRet", !.authErr = "nil"]
    [] f.pc = "legR" ->
         IF t = "trap" THEN AuthFails(f, "AuthError")
         ELSE IF t # "done" THEN AuthFails(f, "ProtocolError")
         ELSE IF k = "hex" THEN [f EXCEPT !.pc = "chalW", !.chalFrom = "legacy"]
         ELSE AuthFails(f, "ProtocolError")
    [] OTHER ->
         IF t = "trap" THEN AuthFails(f, "AuthError")
         ELSE IF t # "done" THEN AuthFails(f, "ProtocolError")
         ELSE [f EXCEPT !.pc = "authRet", !.authErr = "nil", !.chalFrom = "none"]

\* where in the login a reply is read: after the modern /login, after the bare
\* /login, or after the /login carrying the response, sent by
\* handleLegacyChallenge on behalf of tryNewLogin or of tryLegacyLogin
LoginPlace(f) ==
  CASE f.pc = "newR" -> "new"
    [] f.pc = "legR" -> "legacy"
    [] f.chalFrom = "new" -> "newChallenge"
    [] OTHER -> "legacyChallenge"

\* readReply of the reply to a /login sentence
AuthRead(p) ==
  /\ frame[p].pc \in {"newR", "legR", "chalR"}
  /\ NoCall
  /\ UNCHANGED <<now, retryAttempts, cbVars>>
  /\ IF reader = Nil
     THEN Panics(p) /\ UNCHANGED clVars
     ELSE /\ UNCHANGED <<mu, panicked>>
          /\ \/ \* the read fails; no deadline is armed on the connection before
                \* Execute (line 369), so the failure is never a deadline
                \E c \in ReadFailures \ {"deadline"} :
                  LET e == readReplyErr(DecodeSentenceErr(c)) IN
                  /\ IF e = "ErrConnectionClosed" THEN closeConn ELSE UNCHANGED clVars
                  /\ Goes(p, AuthFails(frame[p], e))
             \/ /\ UNCHANGED clVars
                /\ \E t \in ReplyTypes, k \in RetKinds :
                     /\ frame' = [frame EXCEPT ![p] = AuthOnReply(frame[p], t, k)]
                     /\ ev' = LoginReplyEv(p, LoginPlace(frame[p]), t, k)

\* Connect that retries after an AuthError as after any other error
ConnectAuthRet_retryAuth(p) ==
  /\ frame[p].pc = "authRet"
  /\ UNCHANGED <<now, retryAttempts, panicked>>
  /\ IF frame[p].authErr # "nil"
     THEN /\ closeConn
          /\ Goes(p, Continue(frame[p], frame[p].authErr))
          /\ UNCHANGED <<mu, cbVars>>
          /\ NoCall
     ELSE /\ connected' = TRUE
          /\ UNCHANGED <<conn, reader, openConns>>
          /\ recordSuccess
          /\ SawRecordSuccess
          /\ Returns(p, "nil", [frame[p] EXCEPT !.recs = Append(@, "S"), !.tryErr = "nil"])

\* Connect that returns an AuthError without recording the failure
ConnectAuthRet_noRecord(p) ==
  /\ frame[p].pc = "authRet"
  /\ UNCHANGED <<now, retryAttempts, panicked>>
  /\ IF frame[p].authErr # "nil"
     THEN /\ closeConn
          /\ IF frame[p].authErr = "AuthError"
             THEN /\ UNCHANGED cbVars
                  /\ NoCall
                  /\ Returns(p, frame[p].authErr,
                             [frame[p] EXCEPT !.tryErr = frame[p].authErr])
             ELSE /\ Goes(p, Continue(frame[p], frame[p].authErr))
                  /\ UNCHANGED <<mu, cbVars>>
                  /\ NoCall
     ELSE /\ connected' = TRUE
          /\ UNCHANGED <<conn, reader, openConns>>
          /\ recordSuccess
          /\ SawRecordSuccess
          /\ Returns(p, "nil", [frame[p] EXCEPT !.recs = Append(@, "S"), !.tryErr = "nil"])

\* Connect, lines 171-184: after authenticate returned
ConnectAuthRet(p) ==
  /\ frame[p].pc = "authRet"
  /\ UNCHANGED <<now, retryAttempts, panicked>>
  /\ IF frame[p].authErr # "nil"
     THEN /\ closeConn
          /\ IF frame[p].authErr = "AuthError"
             THEN /\ recordFailure
                  /\ SawRecordFailure
                  /\ Returns(p, frame[p].authErr,
                             [frame[p] EXCEPT !.recs = Append(@, "F"),
                                              !.tryErr = frame[p].authErr])
             ELSE /\ Goes(p, Continue(frame[p], frame[p].authErr))
                  /\ UNCHANGED <<mu, cbVars>>
                  /\ NoCall
     ELSE /\ connected' = TRUE
          /\ UNCHANGED <<conn, reader, openConns>>
          /\ recordSuccess
          /\ SawRecordSuccess
          /\ Returns(p, "nil", [frame[p] EXCEPT !.recs = Append(@, "S"), !.tryErr = "nil"])

\* Close: lock, closeConn, unlock
Close(p) ==
  /\ frame[p].pc = "idle"
  /\ Lock(p)
  /\ closeConn
  /\ ev' = RetEv(p, "Close", "nil", IdleFrame)
  /\ NoCall
  /\ UNCHANGED <<now, retryAttempts, cbVars, mu, panicked, frame>>

\* ResetCircuitBreaker: takes the breaker's lock only
ResetCircuitBreaker(p) ==
  /\ frame[p].pc = "idle"
  /\ reset
  /\ SawReset
  /\ ev' = RetEv(p, "ResetCircuitBreaker", "nil", IdleFrame)
  /\ UNCHANGED <<now, retryAttempts, clVars, mu, panicked, frame>>

\* Execute without the test of c.connected
ExecuteEnter_noCheck(p, op) ==
  /\ frame[p].pc = "idle"
  /\ Lock(p)
  /\ NoCall
  /\ UNCHANGED <<now, retryAttempts, cbVars, clVars>>
  /\   IF conn = Nil
       THEN /\ Panics(p)
       ELSE /\ UNCHANGED panicked
            /\ \/ /\ Goes(p, [IdleFrame EXCEPT !.pc = "exW", !.op = op])
                  /\ mu' = p
               \/ \* SetDeadline fails
                  /\ ev' = RetEv(p, op, "ConnectionError", IdleFrame)
                  /\ UNCHANGED <<frame, mu>>

\* Execute, lines 360-373 (called directly or by Run): lock, connected?, SetDeadline
ExecuteEnter(p, op) ==
  /\ frame[p].pc = "idle"
  /\ Lock(p)
  /\ NoCall
  /\ UNCHANGED <<now, retryAttempts, cbVars, clVars>>
  /\   IF ~connected
       THEN /\ ev' = RetEv(p, op, "ErrNotConnected", IdleFrame)
            /\ UNCHANGED <<frame, mu, panicked>>
       ELSE IF conn = Nil
       THEN /\ Panics(p)
       ELSE /\ UNCHANGED panicked
            /\ \/ /\ Goes(p, [IdleFrame EXCEPT !.pc = "exW", !.op = op])
                  /\ mu' = p
               \/ \* SetDeadline fails
                  /\ ev' = RetEv(p, op, "ConnectionError", IdleFrame)
                  /\ UNCHANGED <<frame, mu>>

\* Execute returns (replies, err) and unlocks; Run goes on only when err is nil
ExecuteReturns(p, err, f) ==
  IF f.op = "Run" /\ err = "nil"
  THEN /\ Goes(p, [f EXCEPT !.pc = "runPost"])
       /\ mu' = NoProc
  ELSE Returns(p, err, f)

\* Execute, line 375: writeSentence
ExecuteWrite(p) ==
  /\ frame[p].pc = "exW"
  /\ NoCall
  /\ UNCHANGED <<now, retryAttempts, cbVars, clVars>>
  /\ IF conn = Nil
     THEN Panics(p)
     ELSE /\ UNCHANGED panicked
          /\ \/ Goes(p, [frame[p] EXCEPT !.pc = "exR"]) /\ UNCHANGED mu
             \/ \E c \in WriteFailures :
                  ExecuteReturns(p, "ConnectionError", [frame[p] EXCEPT !.io = c])

\* the replies rs end with a terminal reply (done or fatal), the only one in rs
Terminated(rs) ==
  /\ Len(rs) >= 1
  /\ rs[Len(rs)].type \in {"done", "fatal"}
  /\ \A i \in 1 .. (Len(rs) - 1) : rs[i].type \notin {"done", "fatal"}

\* readAllReplies that stops at a done reply only
ExecuteRead_onlyDone(p) ==
  /\ frame[p].pc = "exR"
  /\ NoCall
  /\ UNCHANGED <<now, retryAttempts, cbVars>>
  /\ IF reader = Nil
     THEN Panics(p) /\ UNCHANGED clVars
     ELSE /\ UNCHANGED panicked
          /\ \/ \* the read fails
                \E c \in ReadFailures :
                  LET e == readReplyErr(DecodeSentenceErr(c)) IN
                  /\ IF e = "ErrConnectionClosed" THEN closeConn ELSE UNCHANGED clVars
                  /\ ExecuteReturns(p, e, [frame[p] EXCEPT !.io = c])
             \/ /\ UNCHANGED clVars
                /\ \E t \in ReplyTypes :
                     LET f == [frame[p] EXCEPT !.replies = Append(@, Reply(t, NoData))] IN
                     IF t = "done"
                     THEN ExecuteReturns(p, "nil", f)
                     ELSE /\ Len(frame[p].replies) < MaxReplies
                          /\ Goes(p, f)
                          /\ UNCHANGED mu

\* readAllReplies: one readReply
ExecuteRead(p) ==
  /\ frame[p].pc = "exR"
  /\ NoCall
  /\ UNCHANGED <<now, retryAttempts, cbVars>>
  /\ IF reader = Nil
     THEN Panics(p) /\ UNCHANGED clVars
     ELSE /\ UNCHANGED panicked
          /\ \/ \* the read fails
                \E c \in ReadFailures :
                  LET e == readReplyErr(DecodeSentenceErr(c)) IN
                  /\ IF e = "ErrConnectionClosed" THEN closeConn ELSE UNCHANGED clVars
                  /\ ExecuteReturns(p, e, [frame[p] EXCEPT !.io = c])
             \/ /\ UNCHANGED clVars
                /\ \E t \in ReplyTypes :
                     LET f == [frame[p] EXCEPT !.replies = Append(@, Reply(t, NoData))] IN
                     IF t \in {"done", "fatal"}
                     THEN ExecuteReturns(p, "nil", f)
                     ELSE /\ Len(frame[p].replies) < MaxReplies
                          /\ Goes(p, f)
                          /\ UNCHANGED mu

\* Run that takes the attributes of every reply for a row
AddRow_anyReply(result, reply) == Append(result, reply.data)

\* Run, lines 403-405: a data reply adds its attribute map to the result
AddRow(result, reply) ==
  IF reply.type = "re" THEN Append(result, reply.data) ELSE result

\* Run, lines 394-408: the loop over the replies from the i-th on, with the
\* rows gathered so far; what Run returns, and whether it calls closeConn
RECURSIVE RunLoop(_, _, _)
RunLoop(replies, i, result) ==
  IF i > Len(replies)
  THEN [rows |-> result, err |-> "nil", closes |-> FALSE]
  ELSE IF replies[i].type = "trap"
  THEN [rows |-> <<>>, err |-> "TrapError", closes |-> FALSE]
  ELSE IF replies[i].type = "fatal"
  THEN [rows |-> <<>>, err |-> "FatalError", closes |-> TRUE]
  ELSE RunLoop(replies, i + 1, AddRow(result, replies[i]))

\* Run, lines 394-408, after Execute returned the replies: runs without c.mu
RunPost(p) ==
  /\ frame[p].pc = "runPost"
  /\ NoCall
  /\ UNCHANGED <<now, retryAttempts, cbVars, mu, panicked>>
  /\ LET r == RunLoop(frame[p].replies, 1, <<>>) IN
     /\ IF r.closes THEN closeConn ELSE UNCHANGED clVars
     /\ ev' = [RetEv(p, "Run", r.err, frame[p]) EXCEPT !.out = r.rows]
     /\ frame' = [frame EXCEPT ![p] = IdleFrame]

\* ---- the Collector ---------------------------------------------------------

\* the goroutine that runs the collection cycles of one router
Poller == "g1"
\* RetryAttempts that createClient puts in place of 0
DefaultRetryAttempts == 3
\* consecutive failed cycles after which no further cycle is started
MaxCycles == 6

\* createClient with cfg.API.RetryAttempts = c: api.NewClient makes a new Client
\* with a new circuit breaker
createClient(c) ==
  /\ retryAttempts' = IF c = 0 THEN DefaultRetryAttempts ELSE c
  /\ connected' = FALSE
  /\ conn' = Nil
  /\ reader' = Nil
  /\ mu' = NoProc
  /\ cbState' = "Closed"
  /\ failures' = 0
  /\ lastFailure' = ZeroTime
  /\ halfOpenAttempts' = 0
  /\ cbCall' = "none"
  /\ cbPrev' = "none"
  /\ cbRet' = FALSE
  /\ streak' = 0
  /\ failAt' = ZeroTime
  /\ reopened' = FALSE

\* CollectAll, lines 97-106
CollectAllStart ==
  /\ cycle = "idle"
  /\ ~panicked
  /\ cycleFails < MaxCycles
  /\ \E c \in RetryChoices : createClient(c)
  /\ cycle' = "connect"
  /\ ev' = NoEv
  /\ UNCHANGED <<now, openConns, panicked, frame, cycleFails, cycleFailAt, fnVars>>

\* CollectAll, lines 109-112: a step of client.Connect, and when Connect returns
\* an error CollectAll returns it
CollectConnect ==
  /\ cycle = "connect"
  /\ ~panicked
  /\ UNCHANGED fnVars
  /\ IF ev'.op # "Connect"
     THEN UNCHANGED coVars
     ELSE IF ev'.ret = "nil"
     THEN cycle' = "collect" /\ cycleFails' = 0 /\ UNCHANGED cycleFailAt
     ELSE /\ cycle' = "idle"
          /\ cycleFails' = IF ev'.ret = "ctxErr" THEN 0 ELSE cycleFails + 1
          /\ cycleFailAt' = now

\* CollectAll, lines 122-179: a step of a command of an enabled category
CollectRun ==
  /\ cycle = "collect"
  /\ ~panicked
  /\ UNCHANGED <<coVars, fnVars>>

\* CollectAll, lines 112 and 181: the deferred client.Close() when CollectAll returns
CollectReturn ==
  /\ cycle = "collect"
  /\ ~panicked
  /\ Close(Poller)
  /\ cycle' = "idle"
  /\ UNCHANGED <<cycleFails, cycleFailAt, fnVars>>

\* ---- the clock -----------------------------------------------------------

Tick ==
  /\ \E d \in TickSteps :
       /\ now + d <= MaxNow
       /\ now' = now + d
  /\ NoCall
  /\ ev' = NoEv
  /\ UNCHANGED <<cbVars, retryAttempts, clVars, mu, panicked, frame>>

\* ---- the breaker driven directly, as its unit tests drive it --------------

CB_canAttempt ==
  /\ \E r \in BOOLEAN : canAttempt(r) /\ SawCanAttempt(r)
  /\ UNCHANGED <<now, retryAttempts, clVars, mu, panicked, frame, ev>>

CB_recordSuccess ==
  /\ recordSuccess
  /\ SawRecordSuccess
  /\ UNCHANGED <<now, retryAttempts, clVars, mu, panicked, frame, ev>>

CB_recordFailure ==
  /\ failures < FailCap
  /\ recordFailure
  /\ SawRecordFailure
  /\ UNCHANGED <<now, retryAttempts, clVars, mu, panicked, frame, ev>>

CB_reset ==
  /\ reset
  /\ SawReset
  /\ UNCHANGED <<now, retryAttempts, clVars, mu, panicked, frame, ev>>

\* ---- the functions called on their own ------------------------------------------

NoCallMade == [fn |-> "none"]
\* what a call returns is a record of its results
NoResult == [pending |-> TRUE]
\* interfaceTracker.states of newInterfaceTracker: no name has an entry
NoStates == <<>>
\* collectNAT is not running
NoNat == [pc |-> "none"]
\* CollectAll has not passed its Connect
NoCollectAll == [at |-> 0]
\* no device is modelled at the other end of the connection
NoWire == [sent |-> 0]
\* no router has been observed
NoOwner == <<>>

\* no function is being called, the tracker is new, collectNAT is not running
FnIdle ==
  /\ call = NoCallMade
  /\ returned = NoResult
  /\ states = NoStates
  /\ nat = NoNat
  /\ collectAll = NoCollectAll
  /\ wire = NoWire
  /\ owner = NoOwner

\* ---- specifications ---------------------------------------------------------

\* newCircuitBreaker
NewBreaker ==
  /\ cbState = "Closed"
  /\ failures = 0
  /\ lastFailure = ZeroTime
  /\ halfOpenAttempts = 0

\* NewClient
Init ==
  /\ now = 0
  /\ NewBreaker
  /\ cbCall = "none"
  /\ cbPrev = "none"
  /\ cbRet = FALSE
  /\ streak = 0
  /\ failAt = ZeroTime
  /\ reopened = FALSE
  /\ retryAttempts \in RetryChoices
  /\ connected = FALSE
  /\ conn = Nil
  /\ reader = Nil
  /\ mu = NoProc
  /\ openConns = 0
  /\ panicked = FALSE
  /\ frame = [p \in Procs |-> IdleFrame]
  /\ ev = NoEv
  /\ cycle = "idle"
  /\ cycleFails = 0
  /\ cycleFailAt = ZeroTime
  /\ FnIdle

\* the step leaves the Collector alone
Direct == UNCHANGED <<coVars, fnVars>>

\* the process has not crashed
Alive == ~panicked /\ UNCHANGED <<coVars, fnVars>>

NextCB ==
  \/ CB_canAttempt /\ Direct
  \/ CB_recordSuccess /\ Direct
  \/ CB_recordFailure /\ Direct
  \/ CB_reset /\ Direct
  \/ Tick /\ Direct

\* the circuit breaker alone
SpecCB == Init /\ [][NextCB]_vars

NextCollector ==
  \/ CollectAllStart
  \/ ConnectEnter(Poller) /\ CollectConnect
  \/ ConnectLoop(Poller) /\ CollectConnect
  \/ ConnectCancelled(Poller) /\ CollectConnect
  \/ ConnectRetry(Poller) /\ CollectConnect
  \/ ConnectDial(Poller) /\ CollectConnect
  \/ AuthWrite(Poller) /\ CollectConnect
  \/ AuthRead(Poller) /\ CollectConnect
  \/ ConnectAuthRet(Poller) /\ CollectConnect
  \/ ExecuteEnter(Poller, "Run") /\ CollectRun
  \/ ExecuteWrite(Poller) /\ CollectRun
  \/ ExecuteRead(Poller) /\ CollectRun
  \/ RunPost(Poller) /\ CollectRun
  \/ CollectReturn
  \/ Tick /\ Alive

\* one Collector polling one router, cycle after cycle
SpecCollector == Init /\ [][NextCollector]_vars

Next ==
  \/ \E p \in Procs : ConnectEnter(p) /\ Alive
  \/ \E p \in Procs : ConnectLoop(p) /\ Alive
  \/ \E p \in Procs : ConnectCancelled(p) /\ Alive
  \/ \E p \in Procs : ConnectRetry(p) /\ Alive
  \/ \E p \in Procs : ConnectDial(p) /\ Alive
  \/ \E p \in Procs : AuthWrite(p) /\ Alive
  \/ \E p \in Procs : AuthRead(p) /\ Alive
  \/ \E p \in Procs : ConnectAuthRet(p) /\ Alive
  \/ \E p \in Procs : Close(p) /\ Alive
  \/ \E p \in Procs : ResetCircuitBreaker(p) /\ Alive
  \/ \E p \in Procs, op \in {"Execute", "Run"} : ExecuteEnter(p, op) /\ Alive
  \/ \E p \in Procs : ExecuteWrite(p) /\ Alive
  \/ \E p \in Procs : ExecuteRead(p) /\ Alive
  \/ \E p \in Procs : RunPost(p) /\ Alive
  \/ Tick /\ Alive

\* one Client called by the goroutines of Procs
Spec == Init /\ [][Next]_vars

\* ---- Run on the replies of one command ----------------------------------------

\* replies of a command before its terminal reply
MaxRunReplies == 3
\* attribute maps of the data replies
Datas == {"a", "b"}

\* the reply lists Execute can hand to Run: data replies and traps, then the
\* terminal reply
RunInputs ==
  LET Body == {Reply("re", d) : d \in Datas} \cup {Reply("trap", NoData)}
      Last == {Reply("done", NoData), Reply("fatal", NoData)}
  IN  {Append(b, t) : b \in UNION {[1 .. n -> Body] : n \in 0 .. MaxRunReplies},
                      t \in Last}

\* a connected Client on which the Execute inside Run has just returned
InitRun ==
  /\ now = 0
  /\ NewBreaker
  /\ cbCall = "none"
  /\ cbPrev = "none"
  /\ cbRet = FALSE
  /\ streak = 0
  /\ failAt = ZeroTime
  /\ reopened = FALSE
  /\ retryAttempts \in 0 .. MaxRetry
  /\ connected = TRUE
  /\ conn = "conn"
  /\ reader = "reader"
  /\ mu = NoProc
  /\ openConns = 1
  /\ panicked = FALSE
  /\ \E rs \in RunInputs :
       frame = [p \in Procs |->
                  IF p = Poller
                  THEN [IdleFrame EXCEPT !.pc = "runPost", !.op = "Run", !.replies = rs]
                  ELSE IdleFrame]
  /\ ev = NoEv
  /\ cycle = "idle"
  /\ cycleFails = 0
  /\ cycleFailAt = ZeroTime
  /\ FnIdle

NextRun ==
  \/ RunPost(Poller) /\ Direct

\* Run mapping the replies of one command to rows
SpecRun == InitRun /\ [][NextRun]_vars

\* ---- properties --------------------------------------------------------------

\* goroutine p is inside a command exchange of Execute: about to write its
\* sentence, or reading the replies up to the terminal one
InExchange(p) == frame[p].pc \in {"exW", "exR"}

\* goroutine q is inside the part of Execute or Connect that dials, writes to
\* or reads from the connection
UsesConn(q) ==
  frame[q].pc \in {"exW", "exR", "dial", "newW", "newR", "legW", "legR", "chalW", "chalR"}

Failed(e) == e \notin {"nil", "none", "pending"}

\* C1: while one goroutine is inside a command exchange of Execute, no other
\* goroutine is in an Execute or Connect that writes to or reads from the
\* connection of the same Client.
C1_ExchangesExclusive ==
  \A p \in Procs : \A q \in Procs \ {p} : InExchange(p) => ~UsesConn(q)

\* one goroutine reads the replies of its command while the other one is still
\* busy with the replies of its own Run
C1_Witness ==
  \E p \in Procs : \E q \in Procs \ {p} :
    frame[p].pc = "exR" /\ frame[q].pc = "runPost"

\* C2: with fewer than maxFailures recordFailure calls since construction or
\* the last recordSuccess/reset, canAttempt returns true; with maxFailures or
\* more of them the breaker is Open and canAttempt returns false as long as
\* no more than resetTimeout has passed since the last recordFailure.
C2_OpensAfterMaxFailures ==
  /\ (cbCall = "canAttempt" /\ streak < MaxFailures => cbRet = TRUE)
  /\ (streak >= MaxFailures /\ now - failAt <= ResetTimeout
        => cbState = "Open" /\ (cbCall = "canAttempt" => cbRet = FALSE))

\* canAttempt refused exactly resetTimeout after the maxFailures-th failure
C2_Witness ==
  /\ cbCall = "canAttempt"
  /\ cbRet = FALSE
  /\ streak = MaxFailures
  /\ now - failAt = ResetTimeout

\* C3: a canAttempt call that finds the breaker HalfOpen (the trial has been
\* granted and no recordSuccess, recordFailure or reset has followed) returns
\* false.
C3_OneTrialInHalfOpen ==
  cbCall = "canAttempt" /\ cbPrev = "HalfOpen" => cbRet = FALSE

\* C4: recordFailure in HalfOpen leaves the breaker Open, and from then on the
\* breaker stays Open and canAttempt returns false as long as no more than
\* resetTimeout has passed since that failure.
C4_HalfOpenFailureReopens ==
  /\ (cbCall = "recordFailure" /\ cbPrev = "HalfOpen" => cbState = "Open")
  /\ (reopened /\ now - failAt <= ResetTimeout
        => cbState = "Open" /\ (cbCall = "canAttempt" => cbRet = FALSE))

\* canAttempt refused exactly resetTimeout after the failure of the trial
C4_Witness ==
  /\ reopened
  /\ cbCall = "canAttempt"
  /\ cbRet = FALSE
  /\ now - failAt = ResetTimeout

\* C5: after recordSuccess or reset, whatever the state before, the breaker is
\* Closed with a failure count of zero, and a canAttempt call made before any
\* further recordFailure returns true.
C5_SuccessAndResetClose ==
  /\ (cbCall \in {"recordSuccess", "reset"} => cbState = "Closed" /\ failures = 0)
  /\ (cbCall = "canAttempt" /\ streak = 0 => cbRet = TRUE /\ cbState = "Closed")

\* reset of an Open breaker whose reset timeout has not elapsed
C5_Witness ==
  /\ cbCall = "reset"
  /\ cbPrev = "Open"
  /\ failAt # ZeroTime
  /\ now - failAt <= ResetTimeout

\* C6: after maxFailures consecutive cycles whose Connect failed, and until
\* resetTimeout has passed since the last of them, the Connect of the next
\* cycle is not admitted: it makes no try.
C6_BreakerOutlivesCycle ==
  cycleFails >= MaxFailures /\ now - cycleFailAt <= ResetTimeout
    => frame[Poller].op # "Connect"

\* C7 as claimed: every Connect that returns has recorded exactly one outcome.
C7_ExactlyOneOutcome ==
  ev.op = "Connect" => Len(ev.recs) = 1

\* C7: a Connect that returns has recorded no outcome when it found the client
\* connected, was denied by canAttempt or was cancelled between tries, and
\* exactly one outcome otherwise: recordSuccess when its last try succeeded,
\* recordFailure when not.
C7_OutcomePerConnect ==
  ev.op = "Connect" =>
    ev.recs = IF ~ev.admitted \/ ev.ret = "ctxErr" THEN <<>>
              ELSE IF ev.last = "nil" THEN <<"S">>
              ELSE <<"F">>

\* a Connect that used up its tries and recorded its one failure
C7_Witness ==
  /\ ev.op = "Connect"
  /\ ev.admitted
  /\ ev.tries = 2
  /\ ev.recs = <<"F">>
  /\ cbCall = "recordFailure"

\* C8: when canAttempt denies, Connect returns ErrCircuitOpen having made no
\* try, and the step changes neither connected, conn, reader, the open sockets
\* nor the breaker's state and failure count.
C8_DeniedConnect ==
  /\ [](cbCall = "canAttempt" /\ ~cbRet
          => /\ ev.op = "Connect"
             /\ ev.ret = "ErrCircuitOpen"
             /\ ev.tries = 0
             /\ frame[ev.p].pc = "idle")
  /\ [][ev'.op = "Connect" /\ ev'.ret = "ErrCircuitOpen"
          => UNCHANGED <<connected, conn, reader, openConns, cbState, failures,
                         lastFailure>>]_vars

\* a Connect turned away by the Open breaker
C8_Witness ==
  /\ ev.op = "Connect"
  /\ ev.ret = "ErrCircuitOpen"
  /\ cbState = "Open"
  /\ cbCall = "canAttempt"

\* C9: a Connect makes at most RetryAttempts+1 tries, stands before a further
\* try only when the previous one failed, and when its last try failed and it
\* was not cancelled it returns the error of that try.
C9_BoundedTries ==
  /\ \A p \in Procs :
       /\ frame[p].tries <= retryAttempts + 1
       /\ (frame[p].pc \in {"loop", "wait", "dial"} /\ frame[p].tries >= 1
             => Failed(frame[p].tryErr))
  /\ (ev.op = "Connect"
        => /\ ev.tries <= retryAttempts + 1
           /\ (ev.tries >= 1 /\ ev.last # "nil" /\ ev.ret # "ctxErr"
                 => Failed(ev.last) /\ ev.ret = ev.last))

\* both tries failed, the second one in the login
C9_Witness ==
  /\ ev.op = "Connect"
  /\ retryAttempts = 1
  /\ ev.tries = 2
  /\ ev.ret = "ProtocolError"

\* C10: no Connect goes on after a try that ended in an AuthError; it returns
\* that AuthError with the connection closed, the client not connected and a
\* failure recorded on the breaker.
C10_AuthErrorAborts ==
  /\ \A p \in Procs : frame[p].tryErr # "AuthError"
  /\ (ev.op = "Connect" /\ ev.last = "AuthError"
        => /\ ev.ret = "AuthError"
           /\ ~connected
           /\ conn = Nil
           /\ reader = Nil
           /\ cbCall = "recordFailure"
           /\ ev.recs = <<"F">>)

\* an AuthError in a try that was not the last one allowed
C10_Witness ==
  /\ ev.op = "Connect"
  /\ ev.ret = "AuthError"
  /\ ev.tries <= retryAttempts

\* the errors whose Temporary flag is false (IsTemporary: "can be retried")
NonTemporary == {"AuthError", "ProtocolError"}

\* C11: a Connect stands before a further try (waiting out RetryDelay, or
\* dialing again) only after a try that ended in a temporary error, never after
\* one that ended in an AuthError or a ProtocolError.
C11_RetryOnlyTemporary ==
  \A p \in Procs :
    frame[p].pc \in {"wait", "dial"} /\ frame[p].tries >= 1
      => frame[p].tryErr \notin NonTemporary

\* goroutine p is in the login of a try: its authentication is incomplete
InLogin(p) ==
  frame[p].pc \in {"newW", "newR", "legW", "legR", "chalW", "chalR", "authRet"}

\* C12: a Connect that returns nil leaves the client connected and the breaker
\* Closed with zero failures, and when it was admitted to the tries it made at
\* least one and its last one succeeded; a Connect whose last try succeeded
\* returns nil; connected is never true while a goroutine is in the login.
C12_SuccessMeansConnected ==
  /\ (ev.op = "Connect" /\ ev.ret = "nil"
        => /\ connected
           /\ cbState = "Closed"
           /\ failures = 0
           /\ (ev.admitted => ev.tries >= 1 /\ ev.last = "nil"))
  /\ (ev.op = "Connect" /\ ev.last = "nil" => ev.ret = "nil")
  /\ (connected => \A p \in Procs : ~InLogin(p))

\* C13: a trap read in reply to the modern /login (name and password) ends the
\* authentication with an AuthError: authenticate returns it to Connect, and
\* the goroutine is not about to send the legacy /login.
C13_ModernTrapEndsLogin ==
  ev.op = "readReply" /\ ev.at = "new" /\ ev.ret = "trap"
    => frame[ev.p].pc = "authRet" /\ frame[ev.p].authErr = "AuthError"

\* C14: a reply to the modern /login that is neither done nor trap and carries
\* a challenge in ret makes the client send the /login with name and response
\* next, in the same try; the reply to that sentence ends the
\* authentication: with success when it is done, with an AuthError when it is
\* a trap, with a ProtocolError otherwise.
C14_ChallengeAfterModernLogin ==
  /\ (ev.op = "readReply" /\ ev.at = "new" /\ ev.ret \notin {"done", "trap"}
        /\ ev.retAttr = "hex"
        => /\ frame[ev.p].pc = "chalW"
           /\ frame[ev.p].chalFrom = "new")
  /\ (ev.op = "readReply" /\ ev.at = "newChallenge"
        => /\ frame[ev.p].pc = "authRet"
           /\ frame[ev.p].authErr = CASE ev.ret = "done" -> "nil"
                                      [] ev.ret = "trap" -> "AuthError"
                                      [] OTHER -> "ProtocolError")

\* C15: an Execute (alone or inside Run) that starts on a client that is not
\* connected returns ErrNotConnected at once: the goroutine does not get to
\* write or read, and the step changes neither connected, conn, reader, the
\* open sockets nor the breaker.
C15_ExecuteNotConnected ==
  [][ /\ (~connected
            => \A p \in Procs :
                 frame[p].pc = "idle" => frame'[p].pc \in {"idle", "loop"})
      /\ (~connected /\ ev'.op \in {"Execute", "Run"} /\ frame[ev'.p].pc = "idle"
            => ev'.ret = "ErrNotConnected")
      /\ (ev'.op \in {"Execute", "Run"} /\ ev'.ret = "ErrNotConnected"
            => /\ ~connected
               /\ frame' = frame
               /\ UNCHANGED <<connected, conn, reader, openConns, cbState,
                              failures, lastFailure, halfOpenAttempts>>)
    ]_vars

\* Execute refused on a client whose failed Connects are counted on the breaker
C15_Witness ==
  /\ ev.op = "Execute"
  /\ ev.ret = "ErrNotConnected"
  /\ failures > 0

\* C16: the replies a successful Execute returns (to its caller, or to Run) are
\* all the replies it read, and they end with the first terminal reply: the
\* last one is a done or a fatal and no earlier one is; an Execute that is
\* still reading has read no terminal reply.
C16_RepliesEndAtTerminal ==
  /\ (ev.op = "Execute" /\ ev.ret = "nil" => Terminated(ev.rows))
  /\ \A p \in Procs :
       /\ (frame[p].pc = "runPost" => Terminated(frame[p].replies))
       /\ (frame[p].pc = "exR"
             => \A i \in 1 .. Len(frame[p].replies) :
                  frame[p].replies[i].type \notin {"done", "fatal"})

\* Execute returns a trap followed by the fatal that ended the reading
C16_Witness ==
  /\ ev.op = "Execute"
  /\ ev.ret = "nil"
  /\ Len(ev.rows) = 2
  /\ ev.rows[1].type = "trap"
  /\ ev.rows[2].type = "fatal"

\* C17: a Run whose command got a fatal among its replies, wherever it stands,
\* returns a FatalError and has closed the connection: the client is not
\* connected and holds no socket.
C17_FatalClosesConnection ==
  ev.op = "Run" /\ (\E i \in 1 .. Len(ev.rows) : ev.rows[i].type = "fatal")
    => /\ ev.ret = "FatalError"
       /\ ~connected
       /\ conn = Nil
       /\ reader = Nil

\* the attribute maps of the data replies of rs, in the order of rs
DataInOrder(rs) ==
  LET d == SelectSeq(rs, LAMBDA r : r.type = "re")
  IN  [i \in 1 .. Len(d) |-> d[i].data]

\* C18: when a reply of the command is a trap, Run returns a TrapError and no
\* rows, whatever data replies stand before or after the trap; when no reply
\* is a trap or a fatal, Run returns no error and exactly the attribute maps
\* of the data replies, in the order the device sent them.
C18_TrapOrRowsInOrder ==
  ev.op = "Run" =>
    /\ ((\E i \in 1 .. Len(ev.rows) : ev.rows[i].type = "trap")
          => ev.ret = "TrapError" /\ ev.out = <<>>)
    /\ ((\A i \in 1 .. Len(ev.rows) : ev.rows[i].type \notin {"trap", "fatal"})
          => ev.ret = "nil" /\ ev.out = DataInOrder(ev.rows))

\* three rows, returned in the order of their replies
C18_Witness ==
  /\ ev.op = "Run"
  /\ ev.ret = "nil"
  /\ ev.out = <<"b", "a", "b">>

\* the errors of type connection or timeout whose Temporary flag is true
TemporaryConnOrTimeout == {"ConnectionError", "ErrConnectionClosed", "TimeoutError"}

\* C19: an Execute (alone or inside Run) that ends because a write to or a read
\* from the socket ran into the deadline returns an error of the connection or
\* timeout type that is temporary, not a ProtocolError.
C19_DeadlineIsTemporary ==
  ev.op \in {"Execute", "Run"} /\ ev.io = "deadline"
    => ev.ret \in TemporaryConnOrTimeout

Half == 65536
Length(h, l) == [hi |-> h, lo |-> l]
\* an int below 2^31 as a length
ToLength(n) == Length(n \div Half, n % Half)
\* length < bound
Less(length, bound) ==
  \/ length.hi < bound.hi
  \/ length.hi = bound.hi /\ length.lo < bound.lo

\* Go's | and & on non-negative ints
RECURSIVE BitOr(_, _)
BitOr(a, b) ==
  IF a = 0 THEN b
  ELSE IF b = 0 THEN a
  ELSE (IF a % 2 = 1 \/ b % 2 = 1 THEN 1 ELSE 0) + 2 * BitOr(a \div 2, b \div 2)

RECURSIVE BitAnd(_, _)
BitAnd(a, b) ==
  IF a = 0 \/ b = 0 THEN 0
  ELSE (IF a % 2 = 1 /\ b % 2 = 1 THEN 1 ELSE 0) + 2 * BitAnd(a \div 2, b \div 2)

\* byte(x): the low eight bits
byte(x) == x % 256
\* length >> 8, length >> 16, length >> 24 and length & 0xFF
Shr8(length) == length.hi * 256 + (length.lo \div 256)
Shr16(length) == length.hi
Shr24(length) == length.hi \div 256
Low8(length) == BitAnd(length.lo, 255)

\* the thresholds 0x80, 0x4000, 0x200000 and 0x10000000 of the length prefix
Limit1 == Length(0, 128)
Limit2 == Length(0, 16384)
Limit3 == Length(32, 0)
Limit4 == Length(4096, 0)

\* EncodeLength: the length prefix of a word, one to five bytes
EncodeLength(length) ==
  IF Less(length, Limit1) THEN <<byte(length.lo)>>
  ELSE IF Less(length, Limit2)
    THEN <<byte(BitOr(Shr8(length), 128)), byte(Low8(length))>>
  ELSE IF Less(length, Limit3)
    THEN <<byte(BitOr(Shr16(length), 192)), byte(BitAnd(Shr8(length), 255)),
           byte(Low8(length))>>
  ELSE IF Less(length, Limit4)
    THEN <<byte(BitOr(Shr24(length), 224)), byte(BitAnd(Shr16(length), 255)),
           byte(BitAnd(Shr8(length), 255)), byte(Low8(length))>>
  ELSE <<240, byte(BitAnd(Shr24(length), 255)), byte(BitAnd(Shr16(length), 255)),
         byte(BitAnd(Shr8(length), 255)), byte(Low8(length))>>

\* a reader is the sequence of the bytes it has left. io.ReadFull(r, buf) with
\* len(buf) = n: the bytes read, what is left, and the error of a short read
ReadFull(r, n) ==
  IF Len(r) >= n
  THEN [buf |-> SubSeq(r, 1, n), rest |-> SubSeq(r, n + 1, Len(r)), err |-> Nil]
  ELSE [buf |-> r, rest |-> <<>>,
        err |-> IF Len(r) = 0 THEN "EOF" ELSE "ErrUnexpectedEOF"]

\* what DecodeLength returns on a failed read
LengthErr(rd) == [n |-> ToLength(0), err |-> rd.err, rest |-> rd.rest]

\* DecodeLength keeping five bits of the first byte and one byte after it,
\* whatever the size the first byte announces
DecodeLength_mask(r) ==
  LET first == ReadFull(r, 1) IN
  IF first.err # Nil THEN LengthErr(first) ELSE
  LET b == first.buf[1] IN
  IF b < 128 THEN [n |-> ToLength(b), err |-> Nil, rest |-> first.rest]
  ELSE LET extra == ReadFull(first.rest, IF b < 192 THEN 1 ELSE IF b < 224 THEN 2
                                         ELSE IF b < 240 THEN 3 ELSE 4) IN
  IF extra.err # Nil THEN LengthErr(extra)
  ELSE [n |-> ToLength(BitOr(BitAnd(b, 31) * 256, extra.buf[1])),
        err |-> Nil, rest |-> extra.rest]

\* DecodeLength: the length read from the reader, and the reader afterwards
DecodeLength(r) ==
  LET first == ReadFull(r, 1) IN
  IF first.err # Nil THEN LengthErr(first) ELSE
  LET b == first.buf[1] IN
  IF b < 128 THEN [n |-> ToLength(b), err |-> Nil, rest |-> first.rest]
  ELSE IF b < 192 THEN
    LET secondByte == ReadFull(first.rest, 1) IN
    IF secondByte.err # Nil THEN LengthErr(secondByte)
    ELSE [n |-> ToLength(BitOr(BitAnd(b, 63) * 256, secondByte.buf[1])),
          err |-> Nil, rest |-> secondByte.rest]
  ELSE IF b < 224 THEN
    LET extra == ReadFull(first.rest, 2) IN
    IF extra.err # Nil THEN LengthErr(extra)
    ELSE [n |-> ToLength(BitOr(BitOr(BitAnd(b, 31) * 65536, extra.buf[1] * 256),
                               extra.buf[2])),
          err |-> Nil, rest |-> extra.rest]
  ELSE IF b < 240 THEN
    LET extra == ReadFull(first.rest, 3) IN
    IF extra.err # Nil THEN LengthErr(extra)
    ELSE [n |-> ToLength(BitOr(BitOr(BitOr(BitAnd(b, 15) * 16777216,
                                           extra.buf[1] * 65536),
                                     extra.buf[2] * 256), extra.buf[3])),
          err |-> Nil, rest |-> extra.rest]
  ELSE
    LET extra == ReadFull(first.rest, 4) IN
    IF extra.err # Nil THEN LengthErr(extra)
    \* binary.BigEndian.Uint32
    ELSE [n |-> Length(BitOr(extra.buf[1] * 256, extra.buf[2]),
                       BitOr(extra.buf[3] * 256, extra.buf[4])),
          err |-> Nil, rest |-> extra.rest]

\* ---- the functions of the codec and of the collectors, called on their own ----------

\* how far around each threshold the lengths are taken
MaxOff == 2

\* the length d above (below, for d < 0) the length base
Offset(base, d) ==
  IF base.lo + d < 0 THEN Length(base.hi - 1, base.lo + d + Half)
  ELSE IF base.lo + d >= Half THEN Length(base.hi + 1, base.lo + d - Half)
  ELSE Length(base.hi, base.lo + d)

\* lengths in [0, 2^32): around 0, the four thresholds, 2^16, 2^31 and 2^32
LengthInputs ==
  LET Bases == {Length(0, 0), Limit1, Limit2, Limit3, Limit4, Length(1, 0),
                Length(32768, 0), Length(Half, 0)}
      All == {Offset(b, d) : b \in Bases, d \in (0 - MaxOff) .. MaxOff}
  IN  {l \in All : l.hi >= 0 /\ l.hi < Half}

\* what follows the length prefix in the reader
Tails == {<<>>, <<0>>, <<129, 7>>}

\* no Client and no Collector takes part
NoClient ==
  /\ now = 0
  /\ NewBreaker
  /\ cbCall = "none"
  /\ cbPrev = "none"
  /\ cbRet = FALSE
  /\ streak = 0
  /\ failAt = ZeroTime
  /\ reopened = FALSE
  /\ retryAttempts = MaxRetry
  /\ connected = FALSE
  /\ conn = Nil
  /\ reader = Nil
  /\ mu = NoProc
  /\ openConns = 0
  /\ panicked = FALSE
  /\ frame = [p \in Procs |-> IdleFrame]
  /\ ev = NoEv
  /\ cycle = "idle"
  /\ cycleFails = 0
  /\ cycleFailAt = ZeroTime

\* the step is a call of a function: Client and Collector do not move
OnlyCall ==
  UNCHANGED <<now, cbVars, cbHist, retryAttempts, clVars, mu, panicked, frame, ev,
              coVars, states, nat, collectAll, wire, owner>>

\* the pending call is of fn
Pending(fn) == call.fn = fn /\ returned = NoResult
\* the call of fn has returned
Returned(fn) == call.fn = fn /\ returned # NoResult

\* TestEncodeDecodeRoundTrip: EncodeLength, then DecodeLength from a reader that
\* holds the encoding (and here the bytes of the tail after it)
LengthCalls ==
  {[fn |-> "EncodeLength", length |-> l, tail |-> t] : l \in LengthInputs, t \in Tails}

EncodeDecodeRoundTrip ==
  /\ Pending("EncodeLength")
  /\ LET encoded == EncodeLength(call.length)
     IN  returned' = [encoded |-> encoded,
                      decoded |-> DecodeLength(encoded \o call.tail)]
  /\ UNCHANGED call
  /\ OnlyCall

\* ---- the codec: words and sentences ------------------------------------------------

\* a Go string is the sequence of its characters; these are the characters used
Chars == {"=", "?", ".", ",", "/", "!", "a", "b", "d", "e", "g", "i", "k", "l",
          "n", "o", "p", "r", "s", "t"}

\* []byte(word): the byte of each character (ASCII)
ByteOf(c) ==
  CASE c = "=" -> 61 [] c = "?" -> 63 [] c = "." -> 46 [] c = "," -> 44
    [] c = "/" -> 47 [] c = "!" -> 33 [] c = "a" -> 97 [] c = "b" -> 98
    [] c = "d" -> 100 [] c = "e" -> 101 [] c = "g" -> 103 [] c = "i" -> 105
    [] c = "k" -> 107 [] c = "l" -> 108 [] c = "n" -> 110 [] c = "o" -> 111
    [] c = "p" -> 112 [] c = "r" -> 114 [] c = "s" -> 115 [] c = "t" -> 116
Bytes(word) == [i \in 1 .. Len(word) |-> ByteOf(word[i])]
\* string(bytes); a byte that is none of the characters above stays a number
CharOf(b) == IF \E c \in Chars : ByteOf(c) = b THEN CHOOSE c \in Chars : ByteOf(c) = b
             ELSE b
String(bytes) == [i \in 1 .. Len(bytes) |-> CharOf(bytes[i])]

\* the int of a length (lengths of the words here are far below 2^31)
ToInt(length) == length.hi * Half + length.lo

\* EncodeWord: the length prefix, then the bytes of the word
EncodeWord(word) == EncodeLength(ToLength(Len(word))) \o Bytes(word)

\* DecodeWord: the word read from the reader, and the reader afterwards
DecodeWord(r) ==
  LET length == DecodeLength(r) IN
  IF length.err # Nil THEN [word |-> <<>>, err |-> length.err, rest |-> length.rest]
  ELSE IF length.n = ToLength(0) THEN [word |-> <<>>, err |-> Nil, rest |-> length.rest]
  ELSE LET word == ReadFull(length.rest, ToInt(length.n)) IN
       IF word.err # Nil THEN [word |-> <<>>, err |-> word.err, rest |-> word.rest]
       ELSE [word |-> String(word.buf), err |-> Nil, rest |-> word.rest]

\* Sentence, NewSentence, AddAttribute, AddQuery, AddProplist
NewSentence(command) == [Word |-> command, Words |-> <<>>]
AddAttribute(s, name, value) ==
  [s EXCEPT !.Words = Append(@, <<"=">> \o name \o <<"=">> \o value)]
AddQuery(s, name, value) ==
  [s EXCEPT !.Words = Append(@, <<"?">> \o name \o <<"=">> \o value)]
\* strings.Join(fields, ",")
RECURSIVE Join(_)
Join(fields) ==
  IF Len(fields) = 0 THEN <<>>
  ELSE IF Len(fields) = 1 THEN fields[1]
  ELSE fields[1] \o <<",">> \o Join(Tail(fields))
AddProplist(s, fields) ==
  IF Len(fields) > 0
  THEN [s EXCEPT !.Words = Append(@, <<"=", ".", "p", "r", "o", "p", "l", "i", "s", "t",
                                       "=">> \o Join(fields))]
  ELSE s

\* the loop of EncodeSentence over s.Words, from index i
RECURSIVE EncodeWords(_, _)
EncodeWords(words, i) ==
  IF i > Len(words) THEN <<>> ELSE EncodeWord(words[i]) \o EncodeWords(words, i + 1)

\* EncodeSentence without the empty word at the end
EncodeSentence_noTerminator(s) == EncodeWord(s.Word) \o EncodeWords(s.Words, 1)

\* EncodeSentence: the command word, the words, the empty word
EncodeSentence(s) == EncodeWord(s.Word) \o EncodeWords(s.Words, 1) \o <<0>>

\* DecodeWord called until it returns the empty word or fails: the words read
\* before that, the error, and the reader afterwards
RECURSIVE DecodeWords(_, _)
DecodeWords(r, words) ==
  LET w == DecodeWord(r) IN
  IF w.err # Nil THEN [words |-> words, err |-> w.err, rest |-> w.rest]
  ELSE IF w.word = <<>> THEN [words |-> words, err |-> Nil, rest |-> w.rest]
  ELSE DecodeWords(w.rest, Append(words, w.word))

\* how many Add calls build a sentence
MaxAdds == 2

\* the calls that build a sentence: the kind, the name or the fields, the value
Adds ==
  {[add |-> k, name |-> n, value |-> v] :
     k \in {"attribute", "query"}, n \in {<<"n">>}, v \in {<<>>, <<"a">>, <<"=", "b">>}}
  \cup {[add |-> "proplist", fields |-> f] : f \in {<<>>, <<(<<"i", "d">>)>>, <<(<<"a">>), <<"b">>>>}}

\* the sentence after the Add calls from index i
RECURSIVE Build(_, _, _)
Build(s, adds, i) ==
  IF i > Len(adds) THEN s
  ELSE LET a == adds[i] IN
       Build(CASE a.add = "attribute" -> AddAttribute(s, a.name, a.value)
               [] a.add = "query" -> AddQuery(s, a.name, a.value)
               [] a.add = "proplist" -> AddProplist(s, a.fields),
             adds, i + 1)

\* the command words are the literals of the callers, none is empty
Commands == {<<"/", "l", "o", "g", "i", "n">>, <<"/", "i", "p">>}

SentenceCalls ==
  {[fn |-> "EncodeSentence", command |-> c, adds |-> a] :
     c \in Commands, a \in UNION {[1 .. n -> Adds] : n \in 0 .. MaxAdds}}

\* TestEncodeSentence: a sentence is built and encoded; its words are decoded back
EncodeSentenceRoundTrip ==
  /\ Pending("EncodeSentence")
  /\ LET s == Build(NewSentence(call.command), call.adds, 1)
         encoded == EncodeSentence(s)
     IN  returned' = [encoded |-> encoded, decoded |-> DecodeWords(encoded, <<>>)]
  /\ UNCHANGED call
  /\ OnlyCall

\* ---- the codec: replies -------------------------------------------------------------

\* strings.HasPrefix
HasPrefix(s, prefix) ==
  Len(s) >= Len(prefix) /\ SubSeq(s, 1, Len(prefix)) = prefix
\* strings.HasSuffix
HasSuffix(s, suffix) ==
  Len(s) >= Len(suffix) /\ SubSeq(s, Len(s) - Len(suffix) + 1, Len(s)) = suffix
\* strings.TrimPrefix
TrimPrefix(s, prefix) ==
  IF HasPrefix(s, prefix) THEN SubSeq(s, Len(prefix) + 1, Len(s)) ELSE s

\* strings.SplitN(s, "=", 2) cutting at the last = instead of the first
SplitN2_last(s) ==
  LET at == {i \in 1 .. Len(s) : s[i] = "="} IN
  IF at = {} THEN <<s>>
  ELSE LET i == CHOOSE j \in at : \A k \in at : k <= j
       IN  <<SubSeq(s, 1, i - 1), SubSeq(s, i + 1, Len(s))>>

\* strings.SplitN(s, "=", 2): s cut at its first =, or s alone when it has none
SplitN2(s) ==
  LET at == {i \in 1 .. Len(s) : s[i] = "="} IN
  IF at = {} THEN <<s>>
  ELSE LET i == CHOOSE j \in at : \A k \in at : j <= k
       IN  <<SubSeq(s, 1, i - 1), SubSeq(s, i + 1, Len(s))>>

\* reply.Data[key] = value
SetData(data, key, value) ==
  [k \in DOMAIN data \cup {key} |-> IF k = key THEN value ELSE data[k]]

\* &Reply{Data: make(map[string]string)}
EmptyReply == [Type |-> <<>>, Data |-> [k \in {} |-> <<>>], Tag |-> <<>>]

\* the body of the loop of DecodeSentence for one word that is not empty
ParseWord(reply, word) ==
  IF HasPrefix(word, <<"=">>)
  THEN LET parts == SplitN2(SubSeq(word, 2, Len(word))) IN
       IF Len(parts) = 2 THEN [reply EXCEPT !.Data = SetData(@, parts[1], parts[2])]
       ELSE IF Len(parts) = 1 THEN [reply EXCEPT !.Data = SetData(@, parts[1], <<>>)]
       ELSE reply
  ELSE IF HasPrefix(word, <<".", "t", "a", "g", "=">>)
  THEN [reply EXCEPT !.Tag = TrimPrefix(word, <<".", "t", "a", "g", "=">>)]
  ELSE reply

\* the loop of DecodeSentence: words are read until the empty one
RECURSIVE DecodeLoop(_, _)
DecodeLoop(r, reply) ==
  LET w == DecodeWord(r) IN
  IF w.err # Nil
  THEN [reply |-> Nil, err |-> DecodeSentenceErr(w.err), rest |-> w.rest]
  ELSE IF w.word = <<>> THEN [reply |-> reply, err |-> Nil, rest |-> w.rest]
  ELSE DecodeLoop(w.rest, ParseWord(reply, w.word))

\* DecodeSentence: the reply read from the reader, and the reader afterwards
DecodeSentence(r) ==
  LET firstWord == DecodeWord(r) IN
  IF firstWord.err # Nil
  THEN [reply |-> Nil, err |-> DecodeSentenceErr(firstWord.err), rest |-> firstWord.rest]
  ELSE DecodeLoop(firstWord.rest, [EmptyReply EXCEPT !.Type = firstWord.word])

\* how many words follow the type in a reply sentence
MaxWords == 2

\* the first words of the replies a device sends
TypeWords == {<<"!", "r", "e">>, <<"!", "d", "o", "n", "e">>}

\* words a device may send after the type
ReplyWords ==
  {<<"=", "k", "=", "a">>, <<"=", "k", "=", "b">>, <<"=", "n", "=", "a", "=", "b">>,
   <<"=", "k", "=">>, <<"=", "k">>, <<"=">>, <<".", "t", "a", "g", "=", "a">>,
   <<".", "t", "a", "g", "=", "b">>, <<"k", "=", "a">>, <<".", "t", "a", "g">>}

\* what the reader holds after the sentence: nothing, or the next sentence
NextSentences == {<<>>, <<(<<"!", "r", "e">>), <<"=", "k", "=", "b">>>>}

DecodeCalls ==
  {[fn |-> "DecodeSentence", type |-> t, words |-> w, next |-> n] :
     t \in TypeWords, w \in UNION {[1 .. n -> ReplyWords] : n \in 0 .. MaxWords},
     n \in NextSentences}

\* TestDecodeSentence: the words of a reply are written to a buffer with the
\* empty word after them, and DecodeSentence reads the buffer
DecodeSentenceCall ==
  /\ Pending("DecodeSentence")
  /\ LET buf == EncodeWords(<<call.type>> \o call.words, 1) \o <<0>>
                \o (IF call.next = <<>> THEN <<>>
                    ELSE EncodeWords(call.next, 1) \o <<0>>)
     IN  returned' = DecodeSentence(buf)
  /\ UNCHANGED call
  /\ OnlyCall

\* ---- counters -------------------------------------------------------------------------

\* a uint64 is the tuple of its four 16-bit limbs, the most significant first
U64(n) == <<0, 0, n \div Half, n % Half>>
Max32 == <<0, 0, Half - 1, Half - 1>>
Max64 == <<Half - 1, Half - 1, Half - 1, Half - 1>>

\* x >= y on uint64
Geq64(x, y) ==
  \/ x = y
  \/ \E i \in 1 .. 4 : x[i] > y[i] /\ \A j \in 1 .. i - 1 : x[j] = y[j]

\* x + y on uint64: the carry out of the top limb is lost
Add64(x, y) ==
  LET s4 == x[4] + y[4]
      s3 == x[3] + y[3] + (s4 \div Half)
      s2 == x[2] + y[2] + (s3 \div Half)
      s1 == x[1] + y[1] + (s2 \div Half)
  IN  <<s1 % Half, s2 % Half, s3 % Half, s4 % Half>>

\* x - y on uint64: the borrow out of the top limb is lost
Sub64(x, y) ==
  LET d4 == x[4] - y[4]
      d3 == x[3] - y[3] - (IF d4 < 0 THEN 1 ELSE 0)
      d2 == x[2] - y[2] - (IF d3 < 0 THEN 1 ELSE 0)
      d1 == x[1] - y[1] - (IF d2 < 0 THEN 1 ELSE 0)
  IN  <<(d1 + Half) % Half, (d2 + Half) % Half, (d3 + Half) % Half, (d4 + Half) % Half>>

\* Handle32BitCounterWrap
Handle32BitCounterWrap(current, previous) ==
  IF Geq64(current, previous) THEN Sub64(current, previous)
  ELSE Add64(Add64(Sub64(Max32, previous), current), U64(1))

\* Handle64BitCounterWrap without the + 1 of the wrapped case
Handle64BitCounterWrap_noPlusOne(current, previous) ==
  IF Geq64(current, previous) THEN Sub64(current, previous)
  ELSE Add64(Sub64(Max64, previous), current)

\* Handle64BitCounterWrap
Handle64BitCounterWrap(current, previous) ==
  IF Geq64(current, previous) THEN Sub64(current, previous)
  ELSE Add64(Add64(Sub64(Max64, previous), current), U64(1))

\* counter values: within MaxOff of 0, 2^16, 2^32, 2^48 and 2^64, and those of
\* the tests
Counters ==
  LET Bases == {<<0, 0, 0, 0>>, <<0, 0, 1, 0>>, <<0, 1, 0, 0>>,
                <<1, 0, 0, 0>>}
  IN  {Add64(b, U64(d)) : b \in Bases, d \in 0 .. MaxOff}
      \cup {Sub64(b, U64(d)) : b \in Bases, d \in 1 .. MaxOff}
      \cup {U64(100), U64(500), U64(1000), Sub64(Max64, U64(9)), Sub64(Max32, U64(255))}

Wrap64Calls ==
  {[fn |-> "Handle64BitCounterWrap", current |-> c, previous |-> p] :
     c \in Counters, p \in Counters}

\* TestHandle64BitCounterWrap
Handle64BitCounterWrapCall ==
  /\ Pending("Handle64BitCounterWrap")
  /\ returned' = [delta |-> Handle64BitCounterWrap(call.current, call.previous)]
  /\ UNCHANGED call
  /\ OnlyCall

Wrap32Calls ==
  {[fn |-> "Handle32BitCounterWrap", current |-> c, previous |-> p] :
     c \in Counters, p \in Counters}

\* TestHandle32BitCounterWrap
Handle32BitCounterWrapCall ==
  /\ Pending("Handle32BitCounterWrap")
  /\ returned' = [delta |-> Handle32BitCounterWrap(call.current, call.previous)]
  /\ UNCHANGED call
  /\ OnlyCall

\* ---- include and exclude patterns ---------------------------------------------------

\* strings.Contains(s, "*")
ContainsStar(s) == \E i \in 1 .. Len(s) : s[i] = "*"

\* strings.Split(s, "*"): the pieces of s between its stars
RECURSIVE SplitStar(_, _)
SplitStar(s, piece) ==
  IF s = <<>> THEN <<piece>>
  ELSE IF Head(s) = "*" THEN <<piece>> \o SplitStar(Tail(s), <<>>)
  ELSE SplitStar(Tail(s), Append(piece, Head(s)))

\* matchGlob
matchGlob(pattern, s) ==
  IF pattern = <<>> THEN s = <<>>
  ELSE IF ContainsStar(pattern) /\ Len(SplitStar(pattern, <<>>)) = 2
  THEN LET parts == SplitStar(pattern, <<>>)
       IN  HasPrefix(s, parts[1]) /\ HasSuffix(s, parts[2])
  ELSE pattern = s

\* the first loop of MatchFilter, from index i: whether some include pattern
\* matches (the loop breaks at the first that does)
RECURSIVE IncludeLoop(_, _, _)
IncludeLoop(name, include, i) ==
  IF i > Len(include) THEN FALSE
  ELSE IF matchGlob(include[i], name) THEN TRUE
  ELSE IncludeLoop(name, include, i + 1)

\* the second loop of MatchFilter, from index i: FALSE when it returns false
RECURSIVE ExcludeLoop(_, _, _)
ExcludeLoop(name, exclude, i) ==
  IF i > Len(exclude) THEN TRUE
  ELSE IF matchGlob(exclude[i], name) THEN FALSE
  ELSE ExcludeLoop(name, exclude, i + 1)

\* MatchFilter
MatchFilter(name, include, exclude) ==
  LET included == (Len(include) = 0) \/ IncludeLoop(name, include, 1)
  IN  IF ~included THEN FALSE ELSE ExcludeLoop(name, exclude, 1)

\* the longest pattern and the longest name
MaxPat == 3
\* the longest include or exclude list
MaxPatterns == 2

\* the strings over the characters cs of a length up to n
StringsOver(cs, n) == UNION {[1 .. k -> cs] : k \in 0 .. n}

GlobCalls ==
  {[fn |-> "matchGlob", pattern |-> p, s |-> s] :
     p \in StringsOver({"a", "b", "*"}, MaxPat), s \in StringsOver({"a", "b"}, MaxPat)}

\* TestMatchGlob
matchGlobCall ==
  /\ Pending("matchGlob")
  /\ returned' = [match |-> matchGlob(call.pattern, call.s)]
  /\ UNCHANGED call
  /\ OnlyCall

\* the patterns of the include and exclude lists, and the names filtered
FilterPatterns == {<<"a", "*">>, <<"*", "b">>, <<"a", "b">>, <<"a", "*", "a">>}
FilterNames == {<<>>, <<"a">>, <<"a", "b">>, <<"b">>, <<"b", "a">>}

FilterCalls ==
  {[fn |-> "MatchFilter", name |-> n, include |-> i, exclude |-> e] :
     n \in FilterNames,
     i \in UNION {[1 .. k -> FilterPatterns] : k \in 0 .. MaxPatterns},
     e \in UNION {[1 .. k -> FilterPatterns] : k \in 0 .. MaxPatterns}}

\* TestMatchFilter
MatchFilterCall ==
  /\ Pending("MatchFilter")
  /\ returned' = [pass |-> MatchFilter(call.name, call.include, call.exclude)]
  /\ UNCHANGED call
  /\ OnlyCall

\* ---- the specification of the function calls ----

FnCalls ==
  LengthCalls \cup
  SentenceCalls \cup
  DecodeCalls \cup
  Wrap64Calls \cup
  Wrap32Calls \cup
  FilterCalls \cup
  GlobCalls

\* a call is pending with its arguments
InitFn ==
  /\ NoClient
  /\ call \in FnCalls
  /\ returned = NoResult
  /\ states = NoStates
  /\ nat = NoNat
  /\ collectAll = NoCollectAll
  /\ wire = NoWire
  /\ owner = NoOwner

NextFn ==
  \/ EncodeDecodeRoundTrip
  \/ EncodeSentenceRoundTrip
  \/ DecodeSentenceCall
  \/ Handle64BitCounterWrapCall
  \/ Handle32BitCounterWrapCall
  \/ MatchFilterCall
  \/ matchGlobCall

SpecFn == InitFn /\ [][NextFn]_vars

\* C21: for every length L in [0, 2^32), DecodeLength applied to the bytes of
\* EncodeLength(L) returns L and consumes exactly those bytes; the encoding is
\* 1, 2, 3, 4 or 5 bytes long for L below 0x80, 0x4000, 0x200000, 0x10000000
\* and above respectively
C21_LengthRoundTrip ==
  Returned("EncodeLength") =>
    /\ returned.decoded.err = Nil
    /\ returned.decoded.n = call.length
    /\ returned.decoded.rest = call.tail
    /\ Len(returned.encoded) =
         IF Less(call.length, Length(0, 128)) THEN 1
         ELSE IF Less(call.length, Length(0, 16384)) THEN 2
         ELSE IF Less(call.length, Length(32, 0)) THEN 3
         ELSE IF Less(call.length, Length(4096, 0)) THEN 4
         ELSE 5

\* the largest length, 2^32 - 1, went through five bytes with more bytes behind
C21_Witness ==
  /\ Returned("EncodeLength")
  /\ call.length = Length(65535, 65535)
  /\ call.tail # <<>>
  /\ Len(returned.encoded) = 5

\* the encoded words of a list, one after the other
RECURSIVE Encoded(_)
Encoded(words) ==
  IF words = <<>> THEN <<>> ELSE EncodeWord(Head(words)) \o Encoded(Tail(words))

\* C22: EncodeSentence produces the encoded command word first, then the encoded
\* attribute, query and proplist words in the order they were added, then exactly
\* one terminating zero byte; decoding words from that output until the first
\* empty word returns the command word followed by the same words in the same order
C22_SentenceRoundTrip ==
  Returned("EncodeSentence") =>
    LET s == Build(NewSentence(call.command), call.adds, 1)
        n == Len(returned.encoded)
    IN  /\ returned.encoded = Encoded(<<call.command>> \o s.Words) \o <<0>>
        /\ returned.encoded[n] = 0
        /\ returned.encoded[n - 1] # 0
        /\ returned.decoded.err = Nil
        /\ returned.decoded.words = <<call.command>> \o s.Words
        /\ returned.decoded.rest = <<>>

\* a sentence with an attribute word and then a different proplist word
C22_Witness ==
  /\ Returned("EncodeSentence")
  /\ Len(call.adds) = 2
  /\ call.adds[1].add = "attribute"
  /\ call.adds[2].add = "proplist"
  /\ Len(returned.decoded.words) = 3
  /\ returned.decoded.words[2] # returned.decoded.words[3]

\* the positions of = in a word after its first character
LaterEquals(w) == {i \in 2 .. Len(w) : w[i] = "="}
FirstLaterEquals(w) == CHOOSE i \in LaterEquals(w) : \A j \in LaterEquals(w) : i <= j
\* a word of the form =key=value, and one that starts with = but has no second =
KeyValueWord(w) == Len(w) >= 1 /\ w[1] = "=" /\ LaterEquals(w) # {}
KeyOnlyWord(w) == Len(w) >= 1 /\ w[1] = "=" /\ LaterEquals(w) = {}
KeyIn(w) ==
  IF LaterEquals(w) = {} THEN SubSeq(w, 2, Len(w))
  ELSE SubSeq(w, 2, FirstLaterEquals(w) - 1)
ValueIn(w) ==
  IF LaterEquals(w) = {} THEN <<>> ELSE SubSeq(w, FirstLaterEquals(w) + 1, Len(w))
\* a word of the form .tag=value
TagWord(w) == Len(w) >= 5 /\ SubSeq(w, 1, 5) = <<".", "t", "a", "g", "=">>

\* the reply read is the one the words describe when the words that set an
\* attribute are those that satisfy Sets: the type is the first word, each key
\* holds the value of the last word that sets it, the tag is that of the last tag
\* word, and nothing after the first empty word is read
Describes(Sets(_)) ==
  LET ws == call.words
      setters == {i \in 1 .. Len(ws) : Sets(ws[i])}
      tags == {i \in 1 .. Len(ws) : ~(Len(ws[i]) >= 1 /\ ws[i][1] = "=") /\ TagWord(ws[i])}
      last(S) == CHOOSE i \in S : \A j \in S : j <= i
      reply == returned.reply
  IN  /\ returned.err = Nil
      /\ reply.Type = call.type
      /\ DOMAIN reply.Data = {KeyIn(ws[i]) : i \in setters}
      /\ \A k \in DOMAIN reply.Data :
           reply.Data[k] = ValueIn(ws[last({i \in setters : KeyIn(ws[i]) = k})])
      /\ reply.Tag = (IF tags = {} THEN <<>> ELSE SubSeq(ws[last(tags)], 6, Len(ws[last(tags)])))
      /\ returned.rest = (IF call.next = <<>> THEN <<>>
                          ELSE Encoded(call.next) \o <<0>>)

\* C23 as stated: DecodeSentence takes the first word as the reply type and reads
\* words until the first empty word; a word =key=value sets attribute key to
\* value, split at the first = after the leading one, a later occurrence of the
\* same key overwrites the earlier one, a word .tag=value sets the tag, and every
\* other word leaves the reply unchanged
C23_OnlyKeyValueWordsSet ==
  Returned("DecodeSentence") => Describes(KeyValueWord)

\* C23, amended: as stated, and a word =key with no = after the leading one sets
\* attribute key to the empty value; every other word leaves the reply unchanged
C23_AttributeWordsSet ==
  Returned("DecodeSentence") =>
    LET Sets(w) == KeyValueWord(w) \/ KeyOnlyWord(w) IN Describes(Sets)

\* a reply with the word =k was decoded, and k has the empty value
C23_Witness ==
  /\ Returned("DecodeSentence")
  /\ Len(call.words) = 2
  /\ call.words[1] = <<"=", "n", "=", "a", "=", "b">>
  /\ call.words[2] = <<"=", "k">>
  /\ call.next # <<>>
  /\ returned.reply.Data[<<"k">>] = <<>>
  /\ returned.reply.Data[<<"n">>] = <<"a", "=", "b">>

\* C24: for all 64-bit unsigned current and previous, Handle64BitCounterWrap
\* returns (current - previous) mod 2^64, a value in [0, 2^64 - 1]: added to
\* previous it gives current again, and when current >= previous nothing wraps
\* in that sum; for current = 100 and previous = 2^64 - 1 - 9 it returns 110
C24_Delta64 ==
  Returned("Handle64BitCounterWrap") =>
    /\ \A i \in 1 .. 4 : returned.delta[i] \in 0 .. Half - 1
    /\ Add64(returned.delta, call.previous) = call.current
    /\ Geq64(call.current, call.previous) => Geq64(call.current, returned.delta)
    /\ ~Geq64(call.current, call.previous) =>
         Sub64(returned.delta, U64(1)) = Add64(Sub64(Max64, call.previous), call.current)
    /\ (call.current = U64(100) /\ call.previous = <<Half - 1, Half - 1, Half - 1, Half - 10>>)
         => returned.delta = U64(110)

\* the counter wrapped: 100 after 2^64 - 10
C24_Witness ==
  /\ Returned("Handle64BitCounterWrap")
  /\ call.current = U64(100)
  /\ call.previous = <<Half - 1, Half - 1, Half - 1, Half - 10>>
  /\ returned.delta = U64(110)

\* C25: for all 64-bit unsigned arguments current and previous,
\* Handle32BitCounterWrap returns a delta bounded by 2^32 - 1
C25_Delta32Bounded ==
  Returned("Handle32BitCounterWrap") =>
    /\ returned.delta[1] = 0
    /\ returned.delta[2] = 0

\* ---- the interface tracker ------------------------------------------------------------

\* how far the clock of the tracker runs, in seconds
MaxClock == 3

\* interface names; the tracker is keyed by the name alone
IfNames == {"ether1", "ether2"}

\* the counters of one observation: rxBytes, txBytes, rxPkts, txPkts
Observations ==
  {<<U64(1000), U64(500), U64(10), Sub64(Max64, U64(9))>>,
   <<U64(2000), U64(500), U64(15), U64(100)>>,
   <<U64(0), U64(100), U64(5), U64(0)>>}

\* a float64 rate: 0, the value of the named results when nothing is assigned
ZeroRate == [delta |-> U64(0), seconds |-> 1]
\* float64(delta) / elapsed for elapsed > 0, kept as its two operands
Div(delta, elapsed) ==
  IF delta = U64(0) THEN ZeroRate ELSE [delta |-> delta, seconds |-> elapsed]

\* &interfaceState{...}
interfaceState(obs, t) ==
  [rxBytes |-> obs[1], txBytes |-> obs[2], rxPackets |-> obs[3], txPackets |-> obs[4],
   timestamp |-> t]

\* the rates of updateAndCalculateRates for the counters obs against the state prev
Rates(obs, prev, elapsed) ==
  [rxBps |-> Div(Handle64BitCounterWrap(obs[1], prev.rxBytes), elapsed),
   txBps |-> Div(Handle64BitCounterWrap(obs[2], prev.txBytes), elapsed),
   rxPps |-> Div(Handle64BitCounterWrap(obs[3], prev.rxPackets), elapsed),
   txPps |-> Div(Handle64BitCounterWrap(obs[4], prev.txPackets), elapsed)]
ZeroRates == [rxBps |-> ZeroRate, txBps |-> ZeroRate, rxPps |-> ZeroRate, txPps |-> ZeroRate]

\* t.states[name] = &interfaceState{...}
Store(name, obs) ==
  states' = [n \in DOMAIN states \cup {name} |->
               IF n = name THEN interfaceState(obs, now) ELSE states[n]]

\* updateAndCalculateRates that stores only the first observation of a name
updateAndCalculateRates_keepFirst(name, obs) ==
  /\ call' = [fn |-> "updateAndCalculateRates", name |-> name, obs |-> obs]
  /\ IF name \in DOMAIN states
     THEN /\ returned' = IF now - states[name].timestamp > 0
                         THEN Rates(obs, states[name], now - states[name].timestamp)
                         ELSE ZeroRates
          /\ UNCHANGED states
     ELSE /\ returned' = ZeroRates
          /\ Store(name, obs)

\* updateAndCalculateRates, under t.mu from its first line to its return; a stored
\* timestamp is never the zero time
updateAndCalculateRates(name, obs) ==
  /\ call' = [fn |-> "updateAndCalculateRates", name |-> name, obs |-> obs]
  /\ returned' =
       IF name \in DOMAIN states /\ now - states[name].timestamp > 0
       THEN Rates(obs, states[name], now - states[name].timestamp)
       ELSE ZeroRates
  /\ Store(name, obs)

\* collectInterfaces, line 132: the tracker is called for an interface of a router
Observe ==
  /\ \E name \in IfNames, obs \in Observations : updateAndCalculateRates(name, obs)
  /\ UNCHANGED <<now, cbVars, cbHist, retryAttempts, clVars, mu, panicked, frame, ev,
                 coVars, nat, collectAll, wire, owner>>

\* time passes between two readings of time.Now
TrackerTick ==
  /\ now < MaxClock
  /\ now' = now + 1
  /\ call' = NoCallMade
  /\ returned' = NoResult
  /\ UNCHANGED <<cbVars, cbHist, retryAttempts, clVars, mu, panicked, frame, ev,
                 coVars, states, nat, collectAll, wire, owner>>

\* NewCollector: the tracker is made once, with the Collector
InitTracker ==
  /\ NoClient
  /\ FnIdle

NextTracker ==
  \/ Observe
  \/ TrackerTick

SpecTracker == InitTracker /\ [][NextTracker]_vars

\* the step is a call of updateAndCalculateRates
Observed == now' = now /\ call'.fn = "updateAndCalculateRates"

\* the rates returned are, for each counter, the delta modulo 2^64 against the
\* state prev, divided by elapsed
QuotientsOf(prev, elapsed) ==
  LET obs == call'.obs
      Is(rate, cur, old) ==
        \E d \in {Sub64(cur, old)} : Add64(d, old) = cur /\ rate = Div(d, elapsed)
  IN  /\ Is(returned'.rxBps, obs[1], prev.rxBytes)
      /\ Is(returned'.txBps, obs[2], prev.txBytes)
      /\ Is(returned'.rxPps, obs[3], prev.rxPackets)
      /\ Is(returned'.txPps, obs[4], prev.txPackets)

\* C26 as stated: for every interface name, the first observation ever made by
\* the tracker yields all-zero rates, and every later observation yields, for
\* each of the four counters, the wraparound-corrected delta against the most
\* recent earlier observation of that same name divided by the seconds elapsed
\* since it
C26_RatesAlwaysQuotients ==
  [][Observed =>
       IF call'.name \notin DOMAIN states THEN returned' = ZeroRates
       ELSE /\ now - states[call'.name].timestamp > 0
            /\ QuotientsOf(states[call'.name], now - states[call'.name].timestamp)]_vars

\* C26, amended: as stated when time has elapsed since the most recent earlier
\* observation of the name, and all-zero rates when no time has elapsed since it;
\* either way the observation becomes the most recent one of the name
C26_RatesOfTracker ==
  [][Observed =>
       /\ IF call'.name \notin DOMAIN states THEN returned' = ZeroRates
          ELSE IF now - states[call'.name].timestamp > 0
          THEN QuotientsOf(states[call'.name], now - states[call'.name].timestamp)
          ELSE returned' = ZeroRates
       /\ states'[call'.name] = interfaceState(call'.obs, now)
       /\ \A n \in DOMAIN states \ {call'.name} : states'[n] = states[n]]_vars

\* a later observation of ether1, two seconds after the one before it and with
\* ether2 observed in between, whose packet counter wrapped: 110 packets in 2 s
C26_Witness ==
  /\ call.fn = "updateAndCalculateRates"
  /\ call.name = "ether1"
  /\ "ether2" \in DOMAIN states
  /\ states["ether2"].timestamp = now - 1
  /\ returned.txPps = [delta |-> U64(110), seconds |-> 2]
  /\ returned.rxBps = [delta |-> U64(1000), seconds |-> 2]

\* a name consists of P, then any (possibly empty) text, then S
Consists(name, P, S) ==
  /\ Len(name) >= Len(P) + Len(S)
  /\ SubSeq(name, 1, Len(P)) = P
  /\ SubSeq(name, Len(name) - Len(S) + 1, Len(name)) = S

\* the matching of names by patterns as the specification describes it: a
\* pattern with one star, P*S, matches the names that consist of P, any text
\* and S; every other pattern matches only the identical name
Matches(pattern, name) ==
  LET stars == {i \in 1 .. Len(pattern) : pattern[i] = "*"} IN
  IF Cardinality(stars) = 1
  THEN LET i == CHOOSE j \in stars : TRUE
       IN  Consists(name, SubSeq(pattern, 1, i - 1), SubSeq(pattern, i + 1, Len(pattern)))
  ELSE pattern = name

\* C27: for every name and every include and exclude pattern list, MatchFilter
\* returns true exactly when (the include list is empty or the name matches at
\* least one include pattern) and the name matches no exclude pattern
C27_FilterPasses ==
  Returned("MatchFilter") =>
    (returned.pass <=>
       /\ \/ call.include = <<>>
          \/ \E i \in 1 .. Len(call.include) : Matches(call.include[i], call.name)
       /\ \A j \in 1 .. Len(call.exclude) : ~Matches(call.exclude[j], call.name))

\* C28: a pattern with one star, written P*S, matches exactly the names that
\* consist of P, then any (possibly empty) text, then S; a pattern without a star
\* matches only the identical name; the empty pattern matches only the empty name
C28_GlobMatches ==
  (Returned("matchGlob") /\ Cardinality({i \in 1 .. Len(call.pattern) : call.pattern[i] = "*"}) <= 1)
    => (returned.match <=> Matches(call.pattern, call.s))

\* ---- collectNAT -------------------------------------------------------------------------

\* maxConns when NAT.MaxConnections is not positive, and the index above which
\* the loop over the rows stops
DefaultMaxConns == 10000
ScanCutoff == 100000

\* rows left in the raw list when the loop is looked at, and how far before a
\* limit the loop is looked at
MaxRows == 4
MaxBack == 2

\* c.config.NAT: MaxConnections unset, negative, small, and above the cutoff;
\* SampleRate in percent
NatConfigs ==
  [MaxConnections : {0 - 1, 0, 2, ScanCutoff + MaxRows},
   SamplingEnabled : BOOLEAN,
   SampleRate : {50, 100}]

\* maxConns := c.config.NAT.MaxConnections; if maxConns <= 0 { maxConns = 10000 }
maxConns(config) ==
  IF config.MaxConnections <= 0 THEN DefaultMaxConns ELSE config.MaxConnections

\* c.config.NAT.SamplingEnabled && c.config.NAT.SampleRate < 1.0
Sampling(config) == config.SamplingEnabled /\ config.SampleRate < 100

\* collectNAT at the head of its loop: len(connections) = n, the index i, and
\* kept = len(result); seen counts the rows the body of the loop has started on
NatLoop(config, n, i, kept) ==
  [pc |-> "loop", config |-> config, n |-> n, i |-> i, kept |-> kept, seen |-> i,
   stop |-> "none"]

\* the heads of the loop the model starts from: the first iteration, and
\* iterations shortly before index DefaultMaxConns and index ScanCutoff. Each is
\* a state collectNAT reaches: without sampling every row before i was kept,
\* so kept = i and the cap lies at or above i; with sampling any number of
\* the rows before i up to the cap was kept
NatHeads ==
  LET Is == {0} \cup ((DefaultMaxConns - MaxBack) .. DefaultMaxConns)
                \cup ((ScanCutoff - MaxBack) .. ScanCutoff)
      Least(a, b) == IF a < b THEN a ELSE b
      Kept(c, i) ==
        IF Sampling(c)
        THEN {k \in (Least(i, maxConns(c)) - MaxBack) .. Least(i, maxConns(c)) : k >= 0}
        ELSE {k \in {i} : i <= maxConns(c)}
  IN  UNION {{NatLoop(c, i + r, i, k) : k \in Kept(c, i)} :
               c \in NatConfigs, i \in Is, r \in 0 .. MaxRows}

\* the row at index i is sampled out: continue
NatSampledOut ==
  /\ nat.pc = "loop"
  /\ nat.i < nat.n
  /\ Sampling(nat.config)
  /\ nat' = [nat EXCEPT !.i = @ + 1, !.seen = nat.i + 1]

\* len(result) >= maxConns: break
NatCapReached ==
  /\ nat.pc = "loop"
  /\ nat.i < nat.n
  /\ nat.kept >= maxConns(nat.config)
  /\ nat' = [nat EXCEPT !.pc = "done", !.seen = nat.i + 1, !.stop = "cap"]

\* NatKeep without the test of len(result) against maxConns
NatKeep_noCap ==
  /\ nat.pc = "loop"
  /\ nat.i < nat.n
  /\ nat' = IF nat.i > ScanCutoff
            THEN [nat EXCEPT !.pc = "done", !.kept = @ + 1, !.seen = nat.i + 1,
                             !.stop = "cutoff"]
            ELSE [nat EXCEPT !.i = @ + 1, !.kept = @ + 1, !.seen = nat.i + 1]

\* the row at index i is parsed and appended; then i > 100000 breaks
NatKeep ==
  /\ nat.pc = "loop"
  /\ nat.i < nat.n
  /\ nat.kept < maxConns(nat.config)
  /\ nat' = IF nat.i > ScanCutoff
            THEN [nat EXCEPT !.pc = "done", !.kept = @ + 1, !.seen = nat.i + 1,
                             !.stop = "cutoff"]
            ELSE [nat EXCEPT !.i = @ + 1, !.kept = @ + 1, !.seen = nat.i + 1]

\* the range loop is over: stats.SampledCount = len(result), return
NatEnd ==
  /\ nat.pc = "loop"
  /\ nat.i = nat.n
  /\ nat' = [nat EXCEPT !.pc = "done", !.stop = "end"]

\* the step is one of collectNAT: nothing else moves
OnlyNat ==
  UNCHANGED <<now, cbVars, cbHist, retryAttempts, clVars, mu, panicked, frame, ev,
              coVars, call, returned, states, collectAll, wire, owner>>

\* collectNAT has the rows of the router and is at an iteration of its loop
InitNAT ==
  /\ NoClient
  /\ call = NoCallMade
  /\ returned = NoResult
  /\ states = NoStates
  /\ collectAll = NoCollectAll
  /\ wire = NoWire
  /\ owner = NoOwner
  /\ nat \in NatHeads

NextNAT ==
  \/ NatSampledOut /\ OnlyNat
  \/ NatCapReached /\ OnlyNat
  \/ NatKeep /\ OnlyNat
  \/ NatEnd /\ OnlyNat

SpecNAT == InitNAT /\ [][NextNAT]_vars

\* C29: for every raw connection list, sample rate and sampling setting, the
\* number of NAT connections kept by collectNAT never exceeds MaxConnections, or
\* 10000 when MaxConnections is zero or negative
C29_KeptWithinCap ==
  nat.pc # "none" =>
    nat.kept <= (IF nat.config.MaxConnections > 0 THEN nat.config.MaxConnections
                 ELSE 10000)

\* with MaxConnections unset, 10000 rows were kept and the loop broke at the
\* next row that was not sampled out, rows being left
C29_Witness ==
  /\ nat.pc = "done"
  /\ nat.stop = "cap"
  /\ nat.config.MaxConnections = 0
  /\ nat.kept = 10000
  /\ nat.i < nat.n

\* C30: collectNAT stops scanning after 100000 raw connection rows regardless
\* of sampling: the body of the loop starts on no row beyond the first 100000
C30_NothingBeyondCutoff ==
  nat.pc # "none" => nat.seen <= 100000

\* ---- CollectAll after its Connect ---------------------------------------------------

\* the categories in the order CollectAll takes them
Categories == <<"system", "interfaces", "pppoe", "nat", "dhcp">>

\* a field of CollectedData that nothing was assigned to
Unset == [unset |-> TRUE]

\* CollectAll, lines 114-120: data := &CollectedData{...} with cfg.Collect = on,
\* standing before the first category; tried lists the categories whose collect
\* function was called
NewCollectedData(on) ==
  [at |-> 1, on |-> on, Data |-> [k \in 1 .. Len(Categories) |-> Unset],
   Errors |-> <<>>, tried |-> <<>>, ret |-> "none"]

\* the collect function of the category returned err, and rows when err is nil:
\* the error is appended to data.Errors, or the data is assigned
Outcome(err, rows) ==
  IF err # "nil"
  THEN [collectAll EXCEPT !.Errors = Append(@, Categories[collectAll.at]),
                          !.tried = Append(@, Categories[collectAll.at]),
                          !.at = @ + 1]
  ELSE [collectAll EXCEPT !.Data[collectAll.at] = [rows |-> rows],
                          !.tried = Append(@, Categories[collectAll.at]),
                          !.at = @ + 1]

\* Category where the first failure ends the collection
Category_abortOnError ==
  /\ collectAll.at \in 1 .. Len(Categories)
  /\ collectAll.at \in collectAll.on
  /\ ~panicked
  /\ UNCHANGED <<coVars, call, returned, states, nat, wire, owner>>
  /\ IF ev'.op # "Run" THEN UNCHANGED collectAll
     ELSE IF ev'.ret # "nil"
     THEN collectAll' = [Outcome(ev'.ret, ev'.out) EXCEPT !.at = Len(Categories) + 1]
     ELSE collectAll' = Outcome(ev'.ret, ev'.out)

\* CollectAll, lines 122-179: a step of the command that decides the enabled
\* category CollectAll stands at; when its Run returns, the outcome is recorded
\* and CollectAll goes to the next category
Category ==
  /\ collectAll.at \in 1 .. Len(Categories)
  /\ collectAll.at \in collectAll.on
  /\ ~panicked
  /\ UNCHANGED <<coVars, call, returned, states, nat, wire, owner>>
  /\ IF ev'.op # "Run" THEN UNCHANGED collectAll
     ELSE collectAll' = Outcome(ev'.ret, ev'.out)

\* `if cfg.Collect.X` is false: the category is passed over
SkipCategory ==
  /\ collectAll.at \in 1 .. Len(Categories)
  /\ collectAll.at \notin collectAll.on
  /\ frame[Poller].pc = "idle"
  /\ collectAll' = [collectAll EXCEPT !.at = @ + 1]
  /\ ev' = NoEv
  /\ NoCall
  /\ UNCHANGED <<now, cbVars, retryAttempts, clVars, mu, panicked, frame, coVars,
                 call, returned, states, nat, wire, owner>>

\* return data, nil, and the deferred client.Close()
CollectAllReturn ==
  /\ collectAll.at = Len(Categories) + 1
  /\ collectAll.ret = "none"
  /\ ~panicked
  /\ Close(Poller)
  /\ collectAll' = [collectAll EXCEPT !.ret = "nil"]
  /\ UNCHANGED <<coVars, call, returned, states, nat, wire, owner>>

\* CollectAll after client.Connect returned nil: the client is connected, its
\* breaker has recorded the success
InitCollectAll ==
  /\ now = 0
  /\ NewBreaker
  /\ cbCall = "none"
  /\ cbPrev = "none"
  /\ cbRet = FALSE
  /\ streak = 0
  /\ failAt = ZeroTime
  /\ reopened = FALSE
  /\ retryAttempts = DefaultRetryAttempts
  /\ connected = TRUE
  /\ conn = "conn"
  /\ reader = "reader"
  /\ mu = NoProc
  /\ openConns = 1
  /\ panicked = FALSE
  /\ frame = [p \in Procs |-> IdleFrame]
  /\ ev = NoEv
  /\ cycle = "collect"
  /\ cycleFails = 0
  /\ cycleFailAt = ZeroTime
  /\ call = NoCallMade
  /\ returned = NoResult
  /\ states = NoStates
  /\ nat = NoNat
  /\ collectAll \in {NewCollectedData(on) : on \in SUBSET (1 .. Len(Categories))}
  /\ wire = NoWire
  /\ owner = NoOwner

NextCollectAll ==
  \/ ExecuteEnter(Poller, "Run") /\ Category
  \/ ExecuteWrite(Poller) /\ Category
  \/ ExecuteRead(Poller) /\ Category
  \/ RunPost(Poller) /\ Category
  \/ SkipCategory
  \/ CollectAllReturn

SpecCollectAll == InitCollectAll /\ [][NextCollectAll]_vars

\* C31: once Connect has succeeded, CollectAll attempts every enabled category in
\* turn whatever happened to the earlier ones, and returns a result with a nil
\* error in which each enabled category has either its data set or exactly one
\* entry in the error list, never both and never neither; disabled categories
\* contribute neither
C31_EveryCategoryAccounted ==
  /\ ~panicked
  /\ collectAll.ret = "nil" =>
       LET entries(k) == {i \in 1 .. Len(collectAll.Errors) :
                            collectAll.Errors[i] = Categories[k]}
           enabled == {i \in 1 .. Len(collectAll.tried) : TRUE}
       IN  /\ \A k \in 1 .. Len(Categories) :
                IF k \in collectAll.on
                THEN \/ collectAll.Data[k] # Unset /\ entries(k) = {}
                     \/ collectAll.Data[k] = Unset /\ Cardinality(entries(k)) = 1
                ELSE collectAll.Data[k] = Unset /\ entries(k) = {}
           /\ Len(collectAll.tried) = Cardinality(collectAll.on)
           /\ \A i \in enabled : \E k \in collectAll.on : collectAll.tried[i] = Categories[k]
           /\ \A i, j \in enabled :
                i < j => \E k, l \in collectAll.on :
                           /\ k < l
                           /\ collectAll.tried[i] = Categories[k]
                           /\ collectAll.tried[j] = Categories[l]

\* CollectAll returned with the system category failed, interfaces collected after
\* it, pppoe disabled and nat failed
C31_Witness ==
  /\ collectAll.ret = "nil"
  /\ collectAll.on = {1, 2, 4}
  /\ collectAll.Errors = <<"system", "nat">>
  /\ collectAll.Data[2] # Unset

\* ---- Connect against a device that may stay silent -----------------------------

NextLogin ==
  \/ ConnectEnter(Poller) /\ Alive
  \/ ConnectLoop(Poller) /\ Alive
  \/ ConnectCancelled(Poller) /\ Alive
  \/ ConnectRetry(Poller) /\ Alive
  \/ ConnectDial(Poller) /\ Alive
  \/ AuthWrite(Poller) /\ Alive
  \/ AuthRead(Poller) /\ Alive
  \/ ConnectAuthRet(Poller) /\ Alive
  \/ Tick /\ Alive

\* the steps of a Connect call that end without the device: the loop and the
\* return run on their own, the timer of time.After fires, the dial is bounded by
\* Dialer.Timeout (line 193), a /login sentence fits the send buffer of the
\* socket.  The read of a reply is not among them: the connection has no
\* deadline before Execute arms one (line 369), so it ends only if the device
\* answers or drops the connection
LoginFairness ==
  /\ WF_vars(ConnectLoop(Poller) /\ Alive)
  /\ WF_vars(ConnectRetry(Poller) /\ Alive)
  /\ WF_vars(ConnectDial(Poller) /\ Alive)
  /\ WF_vars(AuthWrite(Poller) /\ Alive)
  /\ WF_vars(ConnectAuthRet(Poller) /\ Alive)

\* one goroutine calling Connect, every step that the code bounds being taken
SpecLogin == Init /\ [][NextLogin]_vars /\ LoginFairness

\* C32: every Connect invocation eventually returns, also when the device
\* accepts the connection and never answers a login sentence
C32_ConnectReturns ==
  (frame[Poller].op = "Connect" /\ frame[Poller].pc # "idle")
    ~> (frame[Poller].pc \in {"idle", "panic"})

\* ---- the replies of the device on one connection ------------------------------

\* commands written on the connection
MaxCmds == 3

\* a reply of type t that the device emits in answer to the n-th command
Emitted(n, t) == [cmd |-> n, type |-> t]

\* what the device emits in answer to the n-th command: data replies and traps,
\* then !done
Answers(n) ==
  {Append([i \in 1 .. Len(b) |-> Emitted(n, b[i])], Emitted(n, "done")) :
     b \in UNION {[1 .. k -> {"re", "trap"}] : k \in 0 .. MaxReplies}}

\* the replies of goroutine p's Execute after the step: returned, or read so far
RepliesRead(p) == IF ev'.p = p THEN ev'.rows ELSE frame'[p].replies

\* the step belongs to the connection: Collector and functions do not move
OnlyWire == ~panicked /\ UNCHANGED <<coVars, call, returned, states, nat, collectAll, owner>>

\* Execute is called: it has read no reply yet
Issue ==
  /\ wire.sent < MaxCmds
  /\ ExecuteEnter(Poller, "Execute")
  /\ wire' = [wire EXCEPT !.got = <<>>]
  /\ OnlyWire

\* writeSentence: the device gets the command and emits its answer
Sent ==
  /\ ExecuteWrite(Poller)
  /\ IF frame'[Poller].pc = "exR"
     THEN \E a \in Answers(wire.sent + 1) :
            wire' = [wire EXCEPT !.sent = @ + 1, !.buf = @ \o a]
     ELSE UNCHANGED wire
  /\ OnlyWire

\* readReply: the next reply in the stream, whichever command it answers, or
\* nothing before the deadline, which leaves the stream as it is
Received ==
  /\ ExecuteRead(Poller)
  /\ IF ev'.p = Poller /\ ev'.ret # "nil"
     THEN ev'.io = "deadline" /\ UNCHANGED wire
     ELSE /\ wire.buf # <<>>
          /\ RepliesRead(Poller)[Len(RepliesRead(Poller))].type = Head(wire.buf).type
          /\ wire' = [wire EXCEPT !.buf = Tail(@), !.got = Append(@, Head(wire.buf).cmd)]
  /\ OnlyWire

\* a connected Client and the device behind its connection
InitWire ==
  /\ now = 0
  /\ NewBreaker
  /\ cbCall = "none"
  /\ cbPrev = "none"
  /\ cbRet = FALSE
  /\ streak = 0
  /\ failAt = ZeroTime
  /\ reopened = FALSE
  /\ retryAttempts = DefaultRetryAttempts
  /\ connected = TRUE
  /\ conn = "conn"
  /\ reader = "reader"
  /\ mu = NoProc
  /\ openConns = 1
  /\ panicked = FALSE
  /\ frame = [p \in Procs |-> IdleFrame]
  /\ ev = NoEv
  /\ cycle = "idle"
  /\ cycleFails = 0
  /\ cycleFailAt = ZeroTime
  /\ call = NoCallMade
  /\ returned = NoResult
  /\ states = NoStates
  /\ nat = NoNat
  /\ collectAll = NoCollectAll
  /\ wire = [sent |-> 0, buf |-> <<>>, got |-> <<>>]
  /\ owner = NoOwner

NextWire ==
  \/ Issue
  \/ Sent
  \/ Received

\* one goroutine calling Execute again and again on one connection
SpecWire == InitWire /\ [][NextWire]_vars

\* C33: the replies an Execute returns were all emitted in answer to the
\* sentence this Execute wrote, also after an earlier Execute failed part-way
\* through reading its replies
C33_RepliesAnswerTheCommand ==
  (ev.op = "Execute" /\ ev.ret = "nil") =>
     \A i \in 1 .. Len(wire.got) : wire.got[i] = wire.sent

\* ---- connection state and the lock -------------------------------------------

\* C34: connected, conn and reader change only under the Client's lock, so
\* under any interleaving of Run, Execute and Close no Execute is about to
\* write to or read from a connection that another call has closed or set to nil
C34_NoExecuteOnClosedConnection ==
  \A p \in Procs :
    frame[p].pc \in {"exW", "exR"} => connected /\ conn # Nil /\ reader # Nil

\* ---- one Collector, several routers --------------------------------------------

\* cfg.Routers: every router is polled by its own goroutine through the one
\* Collector of the registry, and so through its one ifaceTracker
Routers == {"r1", "r2"}

\* collectInterfaces of the CollectAll for router r, line 132: the tracker gets
\* the name and the counters of an interface, not the router
ObserveRouter ==
  /\ \E r \in Routers, name \in IfNames, obs \in Observations :
       /\ updateAndCalculateRates(name, obs)
       /\ owner' = [n \in DOMAIN owner \cup {name} |-> IF n = name THEN r ELSE owner[n]]
  /\ UNCHANGED <<now, cbVars, cbHist, retryAttempts, clVars, mu, panicked, frame, ev,
                 coVars, nat, collectAll, wire>>

NextRouters ==
  \/ ObserveRouter
  \/ TrackerTick

\* the tracker of one Collector under the polls of all its routers
SpecRouters == InitTracker /\ [][NextRouters]_vars

\* C35: the baseline a call of the tracker uses for an interface of a router
\* was observed on that same router, never on another router that has an
\* interface of the same name
C35_BaselineOfSameRouter ==
  [][ Observed /\ call'.name \in DOMAIN states
               /\ now - states[call'.name].timestamp > 0
        => owner[call'.name] = owner'[call'.name] ]_vars

\* C36: when the device closes the connection while the client reads a reply
\* (end of stream), the read fails with ErrConnectionClosed and the client is
\* no longer connected, its connection and reader released
C36_EndOfStreamCloses ==
  ev.op \in {"Execute", "Run"} /\ ev.io = "EOF"
    => /\ ev.ret = "ErrConnectionClosed"
       /\ ~connected
       /\ conn = Nil
       /\ reader = Nil

\* ---- Run's closeConn, step by step ---------------------------------------------

\* a write or a SetDeadline on a closed socket fails: p does not get on
Usable(p) == conn = Closed => frame'[p].pc \notin {"exW", "exR", "newR", "legR", "chalR"}

\* Run, lines 394-408, with its closeConn up to c.conn.Close(): Run holds no
\* lock, so the other goroutines run between the statements of closeConn
RunPostClose(p) ==
  /\ frame[p].pc = "runPost"
  /\ IF RunLoop(frame[p].replies, 1, <<>>).closes /\ conn # Nil
     THEN /\ connected' = FALSE
          /\ conn' = Closed
          /\ openConns' = IF conn = Closed THEN openConns ELSE openConns - 1
          /\ Goes(p, [frame[p] EXCEPT !.pc = "runClose"])
          /\ NoCall
          /\ UNCHANGED <<now, retryAttempts, cbVars, mu, panicked, reader>>
     ELSE RunPost(p)

\* closeConn, lines 344-346, and the return of Run: c.conn = nil, c.reader = nil
RunPostNil(p) ==
  /\ frame[p].pc = "runClose"
  /\ conn' = Nil
  /\ reader' = Nil
  /\ ev' = RetEv(p, "Run", "FatalError", frame[p])
  /\ frame' = [frame EXCEPT ![p] = IdleFrame]
  /\ NoCall
  /\ UNCHANGED <<now, retryAttempts, cbVars, mu, panicked, connected, openConns>>

\* sockets open at a time: a socket that Run's closeConn drops without closing
\* stays open
MaxOpen == 2

\* a Client that retries nothing
InitRace == Init /\ retryAttempts = 0

NextRace ==
  \/ \E p \in Procs : ConnectEnter(p) /\ Alive
  \/ \E p \in Procs : ConnectLoop(p) /\ Alive
  \/ \E p \in Procs : openConns < MaxOpen /\ ConnectDial(p) /\ Alive
  \/ \E p \in Procs : AuthWrite(p) /\ Usable(p) /\ Alive
  \/ \E p \in Procs : AuthRead(p) /\ Alive
  \/ \E p \in Procs : ConnectAuthRet(p) /\ Alive
  \/ \E p \in Procs : Close(p) /\ Alive
  \/ \E p \in Procs : ExecuteEnter(p, "Run") /\ Usable(p) /\ Alive
  \/ \E p \in Procs : ExecuteWrite(p) /\ Usable(p) /\ Alive
  \/ \E p \in Procs : ExecuteRead(p) /\ Alive
  \/ \E p \in Procs : RunPostClose(p) /\ Alive
  \/ \E p \in Procs : RunPostNil(p) /\ Alive

\* goroutines calling Connect, Run and Close on one Client, the statements of
\* Run's unlocked closeConn interleaved with them
SpecRace == InitRace /\ [][NextRace]_vars

\* C37: a Connect that returns an error leaves the client not connected and
\* without a connection: every socket dialed during the call is closed, conn
\* and reader are nil
C37_FailedConnectHoldsNothing ==
  ev.op = "Connect" /\ Failed(ev.ret)
    => /\ ~connected
       /\ conn = Nil
       /\ reader = Nil
       /\ openConns = 0

\* C38: whenever the Client's lock is free, connected = true implies that conn
\* and reader are both non-nil
C38_ConnectedHasConnection ==
  mu = NoProc /\ connected => conn # Nil /\ reader # Nil

\* ---- the breaker's counter and its state ----------------------------------------

\* C39: after any sequence of canAttempt, recordSuccess, recordFailure and
\* reset calls, a Closed breaker counts fewer failures than maxFailures, and an
\* Open or HalfOpen breaker has had at least one failure recorded since the
\* last recordSuccess or reset
C39_CountMatchesState ==
  /\ (cbState = "Closed" => failures < MaxFailures)
  /\ (cbState \in {"Open", "HalfOpen"} => streak >= 1)

\* the failure of the trial in HalfOpen has opened the breaker again
C39_Witness ==
  /\ cbState = "Open"
  /\ cbCall = "recordFailure"
  /\ cbPrev = "HalfOpen"
  /\ failures = MaxFailures + 1

\* ---- the breaker under a caller that keeps calling Connect ---------------------

\* time keeps advancing and Connect keeps being invoked
SpecLockout ==
  SpecLogin /\ WF_vars(Tick /\ Alive) /\ WF_vars(ConnectEnter(Poller) /\ Alive)

\* C40: the breaker never locks a client out for good: from an Open state, as
\* time advances and Connect is invoked again, a Connect is eventually admitted
\* by canAttempt, and when the Connect admitted as the trial (the breaker
\* HalfOpen) succeeds, the breaker is Closed
C40_NeverLockedOut ==
  /\ (cbState = "Open" /\ failures < FailCap /\ now + 2 * ResetTimeout <= MaxNow)
       ~> (cbCall = "canAttempt" /\ cbRet)
  /\ [](ev.op = "Connect" /\ ev.admitted /\ ev.ret = "nil" /\ cbPrev = "HalfOpen"
          => cbState = "Closed")

=============================================================================
